---- MODULE Spec2Model ----
(***************************************************************************)
(* ESP Recovery: the partition handlers of main/main.c as a state machine. *)
(*                                                                         *)
(* Sizes are scaled so that the flash content can be enumerated: PAGE      *)
(* stands for the 4096 of the code, WRITE_BUF_SIZE for 256 * 1024 and      *)
(* MAX_OTA_DATA_SIZE for 5 * 1024 * 1024.  The ratios the code relies on   *)
(* are kept: WRITE_BUF_SIZE is a multiple of PAGE, more than one page, and *)
(* MAX_OTA_DATA_SIZE is larger than the uploaded partition.                *)
(* A byte is 0x00 or 0xFF; programming is the bitwise AND of the stored    *)
(* byte and the written byte, erasing sets the byte to 0xFF.               *)
(***************************************************************************)
EXTENDS Integers, Sequences, FiniteSets, TLC

PAGE == 2
WRITE_BUF_SIZE == 4
MAX_OTA_DATA_SIZE == 7
FILLER == 255

\* Size of the partition "ota_0", in pages.
Ota0Pages == 3

Byte == {0, FILLER}

(***************************************************************************)
(* The partition table (fixed when the image is built).                    *)
(***************************************************************************)
PartitionTable ==
    << [label |-> "ota_0", type |-> "app", subtype |-> "ota",
        address |-> 0, size |-> Ota0Pages * PAGE],
       [label |-> "nvs", type |-> "data", subtype |-> "nvs",
        address |-> Ota0Pages * PAGE, size |-> PAGE],
       [label |-> "factory", type |-> "app", subtype |-> "factory",
        address |-> (Ota0Pages * PAGE) + PAGE, size |-> PAGE] >>

FlashSize == (Ota0Pages * PAGE) + (2 * PAGE)
Addr == 0 .. (FlashSize - 1)

NoPartition ==
    [label |-> "", type |-> "none", subtype |-> "none", address |-> 0,
     size |-> 0]

\* The labels an upload or clear request carries: two of the table, one
\* unknown, none.
Labels == {"ota_0", "nvs", "bogus", ""}

\* esp_partition_find_first(ANY, ANY, label): the first entry with the label.
esp_partition_find_first(l) ==
    IF \E i \in DOMAIN PartitionTable : PartitionTable[i].label = l
    THEN PartitionTable[CHOOSE i \in DOMAIN PartitionTable :
            /\ PartitionTable[i].label = l
            /\ \A j \in DOMAIN PartitionTable :
                  PartitionTable[j].label = l => i <= j]
    ELSE NoPartition

(***************************************************************************)
(* The storage primitives, relative to a partition.                        *)
(***************************************************************************)
\* The bounds check of esp_partition_read / _write.
InRange(p, off, len) == off <= p.size /\ len <= p.size - off

\* The check of esp_partition_erase_range: in bounds and sector aligned.
EraseArgsOk(p, off, len) ==
    /\ InRange(p, off, len)
    /\ off % PAGE = 0
    /\ len % PAGE = 0

RECURSIVE BitAnd(_, _, _)
BitAnd(a, b, n) ==
    IF n = 0 THEN 0
    ELSE (2 * BitAnd(a \div 2, b \div 2, n - 1)) + ((a % 2) * (b % 2))

\* Programming a byte can only clear bits.
ProgramByte(old, new) == BitAnd(old, new, 8)

\* Flash after len bytes from off of partition p were erased.
EraseBytes(fl, p, off, len) ==
    [a \in Addr |->
        IF a >= p.address + off /\ a < p.address + off + len
        THEN FILLER ELSE fl[a]]

\* Flash after the first n bytes of data were programmed at off of p.
ProgramBytes(fl, p, off, data, n) ==
    [a \in Addr |->
        IF a >= p.address + off /\ a < p.address + off + n
        THEN ProgramByte(fl[a], data[(a - (p.address + off)) + 1])
        ELSE fl[a]]

\* The bytes esp_partition_read copies out.
ReadBytes(fl, p, off, len) ==
    [i \in 1 .. len |-> fl[p.address + off + (i - 1)]]

Content(fl, p) == ReadBytes(fl, p, 0, p.size)

\* The content of "nvs" at start: one programmed byte, then erased bytes.
NvsInit == [i \in 1 .. PAGE |-> IF i = 1 THEN 0 ELSE FILLER]

\* The content of "factory": the image of this application.
FactoryImage == [i \in 1 .. PAGE |-> 0]

(***************************************************************************)
(* The key-value store of partition "nvs": data.                           *)
(***************************************************************************)
Namespaces == {"", "cfg", "app"}

\* The key of the entries; a request can also carry no key.
StoreKeys == {"k"}

\* The type codes of a set request; -1: the request carries none.
TypeCodes == -1 .. 10

\* A value text: the canonical decimal text of n, or another text s.
Dec(n) == [dec |-> TRUE, n |-> n, s |-> ""]
Str(t) == [dec |-> FALSE, n |-> 0, s |-> t]

ValueTexts == {Dec(5), Dec(300), Str("abc")}

\* atoi(value), strtol(value, NULL, 10), ...: the number the text starts
\* with, 0 when it starts with none.
Atoi(v) == IF v.dec THEN v.n ELSE 0

\* The casts (uint8_t), (int8_t), ... of the set handler, by type code. The
\* numbers of ValueTexts fit every type of 16 bits and more.
CastTo(code, n) ==
    IF code = 0 THEN n % 256
    ELSE IF code = 1
    THEN (IF (n % 256) >= 128 THEN (n % 256) - 256 ELSE n % 256)
    ELSE n

\* Variant: the set request's type code is stored as it is.
NvsTypeIsCode(code) == code

\* nvs_type_t of the entry that nvs_set_u8, nvs_set_i8, ... nvs_set_str
\* write, by the type code of the set request: NVS_TYPE_U8 = 0x01,
\* NVS_TYPE_I8 = 0x11, ... NVS_TYPE_STR = 0x21.
NvsTypeOf(code) ==
    CASE code = 0 -> 1
      [] code = 1 -> 17
      [] code = 2 -> 2
      [] code = 3 -> 18
      [] code = 4 -> 4
      [] code = 5 -> 20
      [] code = 6 -> 8
      [] code = 7 -> 24
      [] code = 8 -> 33
      [] OTHER -> 66

\* An entry: its nvs_type_t and its value (a number as its decimal text).
NoEntry == [type |-> 0, value |-> Str("")]

\* The entry a set request of type code (0 .. 8) and text v writes.
EntryOf(code, v) ==
    [type |-> NvsTypeOf(code),
     value |-> IF code = 8 THEN v ELSE Dec(CastTo(code, Atoi(v)))]

\* Variant: the value of every integer entry is printed.
GetValueTextAllTypes(e) ==
    IF e.type = 66 THEN Str("[Binary data]") ELSE e.value

\* The value text of nvs_get_handler: printed for NVS_TYPE_STR, _BLOB, _I32
\* and _U32, left empty for the other types.
GetValueText(e) ==
    IF e.type = 33 THEN e.value
    ELSE IF e.type = 66 THEN Str("[Binary data]")
    ELSE IF e.type = 20 \/ e.type = 4 THEN e.value
    ELSE Str("")

\* Variant: a namespace is created in read-only mode as well.
OpenCreatesAlways(part, ns, mode, names, eok) ==
    IF part # "nvs"
    THEN [err |-> "ESP_ERR_NVS_PART_NOT_FOUND", names |-> names]
    ELSE [err |-> "ESP_OK", names |-> names \union {ns}]

\* nvs_open_from_partition(part, ns, mode): only "nvs" is initialised
\* (nvs_flash_init); a missing namespace is created in read-write mode.
nvs_open_from_partition(part, ns, mode, names, eok) ==
    IF part # "nvs"
    THEN [err |-> "ESP_ERR_NVS_PART_NOT_FOUND", names |-> names]
    ELSE IF ns = "" /\ ~eok
    THEN [err |-> "ESP_ERR_NVS_INVALID_NAME", names |-> names]
    ELSE IF ns \in names
    THEN [err |-> "ESP_OK", names |-> names]
    ELSE IF mode = "NVS_READONLY"
    THEN [err |-> "ESP_ERR_NVS_NOT_FOUND", names |-> names]
    ELSE [err |-> "ESP_OK", names |-> names \union {ns}]

\* An NVS request and its outcome; out is the entry a get reports, listed
\* the entries a list reports, commit the result of nvs_commit ("none" when
\* it was not called).
NvsRequest(o, part, ns, key, type, value, res, resp, out, listed, commit) ==
    [op |-> o, part |-> part, ns |-> ns, key |-> key, type |-> type,
     value |-> value, res |-> res, resp |-> resp, out |-> out,
     listed |-> listed, commit |-> commit]

NoRequest ==
    NvsRequest("none", "", "", "", -1, Str(""), "none", "none", NoEntry, {},
               "none")

\* Variant: the BLOB case of the switch writes like the other cases.
TypeSwitchBlobWrites(code) ==
    IF code \in 0 .. 9 THEN "write" ELSE "mismatch"

\* switch (type) of nvs_set_handler: cases 0 .. 8 call nvs_set_*, case 9
\* refuses, default sets write_err = ESP_ERR_NVS_TYPE_MISMATCH.
TypeSwitch(code) ==
    IF code \in 0 .. 8 THEN "write"
    ELSE IF code = 9 THEN "blob"
    ELSE "mismatch"

\* nvs_commit after a change from entries old to entries new: its result and
\* the entries the store holds afterwards. After a failure the change is in
\* the store or is not.
nvs_commit(old, new) ==
    {[err |-> "ESP_OK", entries |-> new],
     [err |-> "ESP_FAIL", entries |-> new],
     [err |-> "ESP_FAIL", entries |-> old]}

\* The value text of nvs_list_handler: every integer as decimal text, a string
\* as it is (the texts of ValueTexts hold no quote and no backslash).
ListValueText(e) ==
    IF e.type = 66 THEN Str("[BLOB data]") ELSE e.value

\* The entries nvs_entry_find(part, NULL, NVS_TYPE_ANY) iterates over, as
\* nvs_list_handler prints them.
ListedEntries(part, entries) ==
    IF part # "nvs" THEN {}
    ELSE {[ns |-> a[1], key |-> a[2], type |-> entries[a].type,
           value |-> ListValueText(entries[a])] :
             a \in {b \in DOMAIN entries : entries[b] # NoEntry}}

\* The partition names of a list request.
NvsPartitions == {"nvs", "bogus", ""}

\* The second entry the client edits.
OtherItem == [ns |-> "app", type |-> 8, value |-> Str("abc")]

\* The partition name and key of a request: both given, the partition not
\* an NVS partition, the partition missing, the key missing.
NvsAddresses ==
    { << "nvs", "k" >>, << "bogus", "k" >>, << "", "k" >>, << "nvs", "" >> }

(***************************************************************************)
(* The file store of partition "spiffs": data.                             *)
(***************************************************************************)
\* The longest file and the longest upload body.
MaxFileLen == 3

\* The bytes one httpd_req_recv call of spiffs_upload_handler takes at most
\* (512) and the bytes one fread call of spiffs_download_handler takes at
\* most (4096), scaled down.
UploadChunk == 2
DownloadChunk == 2

\* The partitions of type data, subtype spiffs.
SpiffsLabels == {"spiffs"}

\* The partition names of a SPIFFS request: a SPIFFS partition, a partition
\* of another kind, none.
FsPartitions == {"spiffs", "nvs", ""}

FileNames == {"a", "b"}

\* The file names of a SPIFFS request; "": none given.
FsNames == FileNames \union {""}

\* No file of that name.
NoFile == << -1 >>

\* The i-th byte of an upload body, and the file stored at start.
BodyByte(i) == i
StoredFile == [i \in 1 .. MaxFileLen |-> 10 + i]

Min(a, b) == IF a < b THEN a ELSE b

\* esp_partition_find_first(DATA, SPIFFS, label) found a partition.
FindSpiffs(l) == l \in SpiffsLabels

\* esp_vfs_spiffs_register: the results it can have and the partitions
\* registered afterwards.
esp_vfs_spiffs_register(part, mounted) ==
    IF part \in mounted
    THEN {[err |-> "ESP_ERR_INVALID_STATE", mounted |-> mounted]}
    ELSE {[err |-> "ESP_OK", mounted |-> mounted \union {part}],
          [err |-> "ESP_FAIL", mounted |-> mounted]}

\* Variant: the partition stays registered.
UnregisterSkipped(part, mounted) == mounted

\* esp_vfs_spiffs_unregister.
esp_vfs_spiffs_unregister(part, mounted) == mounted \ {part}

\* unlink(filepath): fails when there is no such file.
unlink(files, name) ==
    [ok |-> files[name] # NoFile, files |-> [files EXCEPT ![name] = NoFile]]

\* A SPIFFS request and its outcome: received counts the body bytes taken,
\* sent is what a download has streamed, listed what a list reports.
FsRequest(o, part, name, total, received, res, resp, sent, listed) ==
    [op |-> o, part |-> part, name |-> name, total |-> total,
     received |-> received, res |-> res, resp |-> resp, sent |-> sent,
     listed |-> listed]

NoFsRequest == FsRequest("none", "", "", 0, 0, "none", "none", << >>, {})

(***************************************************************************)
(* State.                                                                  *)
(***************************************************************************)
VARIABLES
    flash,                \* the flash content, by absolute address
    pc,                   \* "idle", "upload_loop" or "returned"
    op,                   \* the handler of the current request
    label,                \* upload_post_handler: decoded label parameter
    total_len,            \* req->content_len
    received,
    write_offset,
    pages_compared,
    pages_written,
    write_buf,            \* the accumulation buffer, -1 where never written
    write_buf_offset,
    write_buf_start_addr,
    write_buf_active,
    bufs,                 \* page_buf, existing_buf, write_buf: heap state
    result,               \* the handler's return value
    response,             \* the HTTP response the handler sent
    \* history of the current request
    base,                 \* flash content when the request started
    payload,              \* the bytes pulled from the request body so far
    page_dirty,           \* data_differs of every compared page, in order
    flash_log,            \* the esp_partition_read / _erase_range / _write
                          \* calls, in order
    memcpy_log,           \* offsets of write_buf the page copies started at
    pulls,                \* httpd_req_recv calls
    fault,                \* a malloc, socket or flash device failure happened
    replay,               \* the upload the client holds, if any; on: it
                          \* was sent once and succeeded
    \* boot selection
    otadata,              \* the OTA data: the selected OTA slot, "" if erased
    running,              \* the partition the bootloader started
    reset_reason,         \* esp_rom_get_reset_reason(0) of the last start
    ota_calls,            \* esp_ota_set_boot_partition calls of the request
    \* key-value store
    nvs_entries,          \* the entries of partition "nvs", by namespace and key
    nvs_namespaces,       \* the namespaces that exist in partition "nvs"
    empty_ns_ok,          \* the NVS library of the build accepts the name ""
    kv_item,              \* the entry the client edits: namespace, type, value
    kv_cur,               \* the last NVS request and its outcome
    \* file store
    fs_files,             \* the files of partition "spiffs", by name
    fs_mounted,           \* the partitions registered with the VFS
    fs_cur,               \* the current SPIFFS request and its outcome
    fs_base,              \* fs_files when the current request arrived
    \* updater script
    script                \* the run of the updater script on the host

locals == << label, total_len, received, write_offset, pages_compared,
             pages_written, write_buf, write_buf_offset,
             write_buf_start_addr, write_buf_active >>
hist == << base, payload, page_dirty, flash_log, memcpy_log, pulls, fault >>
boot == << otadata, running, reset_reason, ota_calls >>
kvs == << nvs_entries, nvs_namespaces, empty_ns_ok, kv_item, kv_cur >>
fss == << fs_files, fs_mounted, fs_cur, fs_base >>
vars == << flash, pc, op, locals, bufs, result, response, hist, replay,
          boot, kvs, fss, script >>

BufNames == {"page_buf", "existing_buf", "write_buf"}

EmptyWriteBuf == [i \in 0 .. (WRITE_BUF_SIZE - 1) |-> -1]
NoBufs == [b \in BufNames |-> "unallocated"]
NoReplay == [on |-> FALSE, label |-> "", payload |-> << >>]

\* The script before it has started.
NoScript ==
    [pc |-> "none", SKIP_WIFI |-> FALSE, ORIGINAL_SSID |-> "",
     CONNECTED_TO_ESP |-> FALSE, HTTP_RESPONSE |-> "", net |-> "",
     sent |-> << >>, reconnects |-> 0, exit |-> -1]

\* Variant: write_buf is not freed.
FreeLeaksWriteBuf(bf, bs) ==
    [b \in BufNames |->
        IF b \in (bs \ {"write_buf"})
        THEN (IF bf[b] = "live" THEN "freed" ELSE "bad_free")
        ELSE bf[b]]

\* free(b) of every buffer in bs.
Free(bf, bs) ==
    [b \in BufNames |->
        IF b \in bs
        THEN (IF bf[b] = "live" THEN "freed" ELSE "bad_free")
        ELSE bf[b]]

Init ==
    /\ flash \in { f \in [Addr -> Byte] :
          /\ Content(f, esp_partition_find_first("nvs")) = NvsInit
          /\ Content(f, esp_partition_find_first("factory")) = FactoryImage }
    /\ pc = "idle"
    /\ op = "none"
    /\ label = ""
    /\ total_len = 0
    /\ received = 0
    /\ write_offset = 0
    /\ pages_compared = 0
    /\ pages_written = 0
    /\ write_buf = EmptyWriteBuf
    /\ write_buf_offset = 0
    /\ write_buf_start_addr = 0
    /\ write_buf_active = FALSE
    /\ bufs = NoBufs
    /\ result = "none"
    /\ response = "none"
    /\ base = flash
    /\ payload = << >>
    /\ page_dirty = << >>
    /\ flash_log = << >>
    /\ memcpy_log = {}
    /\ pulls = 0
    /\ fault = FALSE
    /\ replay = NoReplay
    /\ otadata = "ota_0"
    /\ running = "factory"
    /\ reset_reason = "POWERON"
    /\ ota_calls = 0
    /\ nvs_entries = [a \in Namespaces \X StoreKeys |-> NoEntry]
    /\ nvs_namespaces = {}
    /\ empty_ns_ok = TRUE
    /\ kv_item = OtherItem
    /\ kv_cur = NoRequest
    /\ fs_files = [n \in FileNames |-> NoFile]
    /\ fs_mounted = {}
    /\ fs_cur = NoFsRequest
    /\ fs_base = fs_files
    /\ script = NoScript

(***************************************************************************)
(* upload_post_handler: the pieces of the page loop.                       *)
(***************************************************************************)
\* Variant: a whole page is asked for and counted, whatever remains.
ToRecvWholePage(tl, rc) == PAGE

\* int to_recv = (total_len - received) > 4096 ? 4096 : (total_len - received)
ToRecv(tl, rc) == IF (tl - rc) > PAGE THEN PAGE ELSE tl - rc

\* Variant: the short page is padded with 0x00.
PadPageZero(data) ==
    [i \in 1 .. PAGE |-> IF i <= Len(data) THEN data[i] ELSE 0]

\* memset(page_buf + recv_bytes, 0xFF, 4096 - recv_bytes)
PadPage(data) ==
    [i \in 1 .. PAGE |-> IF i <= Len(data) THEN data[i] ELSE FILLER]

\* Variant: the result of memcmp is read the wrong way round.
DataDiffersInverted(read_ok, page, existing) ==
    (~read_ok) \/ (page = existing)

\* Variant: a page whose read failed is taken to be unchanged.
DataDiffersReadOnly(read_ok, page, existing) == read_ok /\ (page # existing)

\* (read_err != ESP_OK) || (memcmp(page_buf, existing_buf, 4096) != 0)
DataDiffers(read_ok, page, existing) == (~read_ok) \/ (page # existing)

\* Variant: the page is copied to the start of write_buf.
MemcpyAtStart(wb, off, page) ==
    [i \in DOMAIN wb |-> IF i < PAGE THEN page[i + 1] ELSE wb[i]]

\* memcpy(write_buf + write_buf_offset, page_buf, 4096)
Memcpy(wb, off, page) ==
    [i \in DOMAIN wb |->
        IF i >= off /\ i < off + PAGE THEN page[(i - off) + 1] ELSE wb[i]]

\* Variants: the buffer counts as full one page late / one page early.
BufFullLate(off) == off > WRITE_BUF_SIZE
BufFullEarly(off) == off >= WRITE_BUF_SIZE - PAGE

\* Variant: the buffer never counts as full.
BufFullNever(off) == FALSE

\* bool buf_full = (write_buf_offset >= 256 * 1024)
BufFull(off) == off >= WRITE_BUF_SIZE

\* Variant: a flushed run counts as one page.
PagesInRunOne(off) == 1

\* pages_written += (write_buf_offset / 4096)
PagesInRun(off) == off \div PAGE

\* Variant: the last page is not recognised.
IsLastPageNever(rc, tr, tl) == rc + tr > tl

\* bool is_last_page = (received + to_recv >= total_len)
IsLastPage(rc, tr, tl) == rc + tr >= tl

\* Variant: the length is not rounded to whole pages.
EraseLenUnrounded(off) == off + (PAGE - 1)

\* size_t erase_len = ((write_buf_offset + 4095) / 4096) * 4096
EraseLen(off) == ((off + (PAGE - 1)) \div PAGE) * PAGE

\* A flash operation the device fails ("fail") stops before its last unit (the
\* last sector of an erase, the last byte of a write); "none" is no failure.
DeviceFaults == {"none", "fail"}

\* esp_partition_erase_range(p, off, len); ef is the device's failure.
esp_partition_erase_range(fl, p, off, len, ef) ==
    IF ~EraseArgsOk(p, off, len)
    THEN [ok |-> FALSE, flash |-> fl, dev |-> FALSE]
    ELSE IF ef # "none" /\ len > 0
    THEN [ok |-> FALSE, dev |-> TRUE,
          flash |-> EraseBytes(fl, p, off, len - PAGE)]
    ELSE [ok |-> TRUE, flash |-> EraseBytes(fl, p, off, len), dev |-> FALSE]

\* esp_partition_write(p, off, data, len); wf is the device's failure.
esp_partition_write(fl, p, off, data, len, wf) ==
    IF ~InRange(p, off, len)
    THEN [ok |-> FALSE, flash |-> fl, dev |-> FALSE]
    ELSE IF wf # "none" /\ len > 0
    THEN [ok |-> FALSE, dev |-> TRUE,
          flash |-> ProgramBytes(fl, p, off, data, len - 1)]
    ELSE [ok |-> TRUE, flash |-> ProgramBytes(fl, p, off, data, len),
          dev |-> FALSE]

\* The failures of one flush: of the erase, or of the write after it.
FlushFaults ==
    { << "none", "none" >>, << "fail", "none" >>, << "none", "fail" >> }

\* An entry of flash_log.
Call(o, p, off, len, r) ==
    [op |-> o, part |-> p.label, off |-> off, len |-> len, ok |-> r.ok,
     dev |-> r.dev]

\* Variant: the run is programmed although its erase failed.
FlushProgramsAfterFailedErase(fl, p, start, wb, off, ff) ==
    LET erase_len == EraseLen(off)
        er == esp_partition_erase_range(fl, p, start, erase_len, ff[1])
        data == [i \in 1 .. off |-> IF (i - 1) \in DOMAIN wb THEN wb[i - 1]
                                    ELSE -1]
        wr == esp_partition_write(er.flash, p, start, data, off, ff[2])
    IN  [err |-> IF ~er.ok THEN "erase" ELSE IF wr.ok THEN "ok" ELSE "write",
         flash |-> wr.flash, dev |-> er.dev \/ wr.dev,
         calls |-> << Call("erase", p, start, erase_len, er),
                      Call("write", p, start, off, wr) >>]

\* Flush of the accumulation buffer: erase the run, then program it.
Flush(fl, p, start, wb, off, ff) ==
    LET erase_len == EraseLen(off)
        er == esp_partition_erase_range(fl, p, start, erase_len, ff[1])
        data == [i \in 1 .. off |-> IF (i - 1) \in DOMAIN wb THEN wb[i - 1]
                                    ELSE -1]
        wr == esp_partition_write(er.flash, p, start, data, off, ff[2])
        ecall == Call("erase", p, start, erase_len, er)
    IN  IF ~er.ok
        THEN [err |-> "erase", flash |-> er.flash, dev |-> er.dev,
              calls |-> << ecall >>]
        ELSE [err |-> IF wr.ok THEN "ok" ELSE "write",
              flash |-> wr.flash, dev |-> wr.dev,
              calls |-> << ecall, Call("write", p, start, off, wr) >>]

(***************************************************************************)
(* upload_post_handler.                                                    *)
(***************************************************************************)
\* The values the request's Content-Length takes.
Lengths == 0 .. (MAX_OTA_DATA_SIZE + 1)

\* Variant: the limit is off by one.
TooLargeOffByOne(len) == len > MAX_OTA_DATA_SIZE + 1

\* if (total_len > MAX_OTA_DATA_SIZE)
TooLarge(len) == len > MAX_OTA_DATA_SIZE

\* Variant: the NULL check is missing.
FoundAlways(p) == TRUE

\* if (!partition) fails
Found(p) == p # NoPartition

\* An exit before the page loop: the response is sent, ESP_FAIL returned.
UploadReject(l, len, resp, bf, flt) ==
    /\ pc' = "returned"
    /\ op' = "upload"
    /\ label' = l
    /\ total_len' = len
    /\ bufs' = bf
    /\ result' = "ESP_FAIL"
    /\ response' = resp
    /\ fault' = flt
    /\ UNCHANGED << flash, received, write_offset, pages_compared,
                    pages_written, write_buf, write_buf_offset,
                    write_buf_start_addr, write_buf_active, base, payload,
                    page_dirty, flash_log, memcpy_log, pulls, replay, boot,
                    kvs, fss, script >>

\* strlen(label) == 0: 400 "Partition label required".
UploadNoLabel ==
    /\ pc = "idle"
    /\ ~replay.on
    /\ \E len \in Lengths :
          UploadReject("", len, "400 Partition label required", bufs, FALSE)

\* total_len > MAX_OTA_DATA_SIZE: 413 "Binary too large".
UploadTooLarge ==
    /\ pc = "idle"
    /\ ~replay.on
    /\ \E l \in Labels \ {""}, len \in Lengths :
          /\ TooLarge(len)
          /\ UploadReject(l, len, "413 Binary too large", bufs, FALSE)

\* esp_partition_find_first returned NULL: 404 "Partition not found".
UploadNotFound ==
    /\ pc = "idle"
    /\ ~replay.on
    /\ \E l \in Labels \ {""}, len \in Lengths :
          /\ ~TooLarge(len)
          /\ ~Found(esp_partition_find_first(l))
          /\ UploadReject(l, len, "404 Partition not found", bufs, FALSE)

\* One of the three malloc calls returned NULL: the others are freed, 500.
UploadAllocFail ==
    /\ pc = "idle"
    /\ ~replay.on
    /\ \E l \in Labels \ {""}, len \in Lengths,
          failed \in (SUBSET BufNames) \ {{}} :
          /\ ~TooLarge(len)
          /\ Found(esp_partition_find_first(l))
          /\ UploadReject(l, len, "500 Memory allocation failed",
                [b \in BufNames |->
                    IF b \in failed THEN "null" ELSE "freed"], TRUE)

\* The client holds one upload (label and body) that it sends, or sends again.
Scripted == replay.on \/ replay.label # ""

\* The checks passed and the buffers are allocated: the page loop starts.
\* A client that repeats its upload sends the same label and length.
UploadStart ==
    /\ pc = "idle"
    /\ \E l \in Labels \ {""}, len \in Lengths :
          /\ Scripted => (l = replay.label /\ len = Len(replay.payload))
          /\ ~TooLarge(len)
          /\ Found(esp_partition_find_first(l))
          /\ label' = l
          /\ total_len' = len
    /\ pc' = "upload_loop"
    /\ op' = "upload"
    /\ received' = 0
    /\ write_offset' = 0
    /\ pages_compared' = 0
    /\ pages_written' = 0
    /\ bufs' = [b \in BufNames |-> "live"]
    /\ write_buf' = EmptyWriteBuf
    /\ write_buf_offset' = 0
    /\ write_buf_start_addr' = 0
    /\ write_buf_active' = FALSE
    /\ UNCHANGED << flash, result, response, hist, replay, boot, kvs, fss,
                    script >>

\* Variant: the error exit reports success.
ErrorOutReturnsOk(resp) ==
    /\ pc' = "returned"
    /\ bufs' = Free(bufs, BufNames)
    /\ result' = "ESP_OK"
    /\ response' = resp

\* goto error_out: the three buffers are freed, ESP_FAIL is returned.
ErrorOut(resp) ==
    /\ pc' = "returned"
    /\ bufs' = Free(bufs, BufNames)
    /\ result' = "ESP_FAIL"
    /\ response' = resp

\* httpd_req_recv returned <= 0 while a page was being received.
UploadRecvFail ==
    /\ pc = "upload_loop"
    /\ received < total_len
    /\ ErrorOut("none")
    /\ pulls' = pulls + 1
    /\ fault' = TRUE
    /\ UNCHANGED << flash, op, locals, base, payload, page_dirty, flash_log,
                    memcpy_log, replay, boot, kvs, fss, script >>

\* The bytes the request body delivers for the next page.
BodyData(n) ==
    IF Scripted
    THEN { SubSeq(replay.payload, received + 1, received + n) }
    ELSE [1 .. n -> Byte]

\* One iteration of the page loop with the page received in full.
UploadPage ==
    /\ pc = "upload_loop"
    /\ received < total_len
    /\ \E data \in BodyData(ToRecv(total_len, received)), rf \in BOOLEAN :
        LET partition == esp_partition_find_first(label)
            to_recv == ToRecv(total_len, received)
            page_buf == PadPage(data)
            in_range == InRange(partition, write_offset, PAGE)
            read_ok == in_range /\ ~rf
            existing_buf == IF read_ok
                            THEN ReadBytes(flash, partition, write_offset, PAGE)
                            ELSE << >>
            data_differs == DataDiffers(read_ok, page_buf, existing_buf)
            opens == data_differs /\ ~write_buf_active
            start == IF opens THEN write_offset ELSE write_buf_start_addr
            off0 == IF opens THEN 0 ELSE write_buf_offset
            wb == IF data_differs THEN Memcpy(write_buf, off0, page_buf)
                  ELSE write_buf
            off == IF data_differs THEN off0 + PAGE ELSE off0
            active == data_differs \/ write_buf_active
            rcall == Call("read", partition, write_offset, PAGE,
                          [ok |-> read_ok, dev |-> rf])
            do_flush == IF data_differs
                        THEN BufFull(off)
                             \/ IsLastPage(received, to_recv, total_len)
                        ELSE write_buf_active
        IN  /\ rf => in_range
            /\ payload' = payload \o data
            /\ pulls' = pulls + 1
            /\ page_dirty' = Append(page_dirty, data_differs)
            /\ pages_compared' = pages_compared + 1
            /\ memcpy_log' = IF data_differs THEN memcpy_log \union {off0}
                             ELSE memcpy_log
            /\ write_buf' = wb
            /\ write_buf_start_addr' = start
            /\ IF do_flush
               THEN \E ff \in FlushFaults :
                    \E fl \in {Flush(flash, partition, start, wb, off, ff)} :
                        /\ flash' = fl.flash
                        /\ flash_log' = (flash_log \o << rcall >>) \o fl.calls
                        /\ fault' = (fault \/ rf \/ fl.dev)
                        /\ (ff # << "none", "none" >>) => fl.dev
                        /\ IF fl.err = "ok"
                           THEN /\ pages_written' =
                                       pages_written + PagesInRun(off)
                                /\ write_buf_active' = FALSE
                                /\ write_buf_offset' = 0
                                /\ write_offset' = write_offset + PAGE
                                /\ received' = received + to_recv
                                /\ UNCHANGED << pc, bufs, result, response >>
                           ELSE /\ ErrorOut(IF fl.err = "erase"
                                        THEN "500 Failed to erase partition"
                                        ELSE "500 Write failed")
                                /\ write_buf_active' = active
                                /\ write_buf_offset' = off
                                /\ UNCHANGED << pages_written, write_offset,
                                                received >>
               ELSE /\ write_buf_active' = active
                    /\ write_buf_offset' = off
                    /\ write_offset' = write_offset + PAGE
                    /\ received' = received + to_recv
                    /\ fault' = (fault \/ rf)
                    /\ flash_log' = Append(flash_log, rcall)
                    /\ UNCHANGED << flash, pages_written, pc, bufs, result,
                                    response >>
    /\ UNCHANGED << op, label, total_len, base, replay, boot, kvs, fss,
                    script >>

\* Variant: a complete upload makes its partition the boot partition.
UploadFinishActivates ==
    /\ pc = "upload_loop"
    /\ ~(received < total_len)
    /\ pc' = "returned"
    /\ bufs' = Free(bufs, BufNames)
    /\ IF received # total_len
       THEN /\ result' = "ESP_FAIL" /\ response' = "500 Upload incomplete"
            /\ UNCHANGED << otadata, ota_calls >>
       ELSE /\ result' = "ESP_OK" /\ response' = "200 success"
            /\ otadata' = label
            /\ ota_calls' = ota_calls + 1
    /\ UNCHANGED << flash, op, locals, hist, replay, running, reset_reason,
                    kvs, fss, script >>

\* The loop ended: the buffers are freed and the outcome is reported.
UploadFinish ==
    /\ pc = "upload_loop"
    /\ ~(received < total_len)
    /\ pc' = "returned"
    /\ bufs' = Free(bufs, BufNames)
    /\ IF received # total_len
       THEN result' = "ESP_FAIL" /\ response' = "500 Upload incomplete"
       ELSE result' = "ESP_OK" /\ response' = "200 success"
    /\ UNCHANGED << flash, op, locals, hist, replay, boot, kvs, fss, script >>

(***************************************************************************)
(* clear_partition_handler.                                                *)
(***************************************************************************)
ClearDone(l, res, resp, fl, calls, flt) ==
    /\ pc' = "returned"
    /\ op' = "clear"
    /\ label' = l
    /\ result' = res
    /\ response' = resp
    /\ flash' = fl
    /\ flash_log' = calls
    /\ fault' = flt
    /\ UNCHANGED << total_len, received, write_offset, pages_compared,
                    pages_written, write_buf, write_buf_offset,
                    write_buf_start_addr, write_buf_active, bufs, base,
                    payload, page_dirty, memcpy_log, replay, boot, kvs, fss,
                    script >>

\* malloc(512) returned NULL.
ClearAllocFail ==
    /\ pc = "idle"
    /\ ~replay.on
    /\ ClearDone("", "ESP_FAIL", "500 Memory allocation failed", flash,
                 flash_log, TRUE)
    /\ UNCHANGED pulls

\* httpd_req_recv returned <= 0.
ClearRecvFail ==
    /\ pc = "idle"
    /\ ~replay.on
    /\ ClearDone("", "ESP_FAIL", "400 Invalid request", flash, flash_log,
                 TRUE)
    /\ pulls' = pulls + 1

\* Variant: the whole flash is erased, whatever partition was named.
ClearErasesChip ==
    /\ pc = "idle"
    /\ ~replay.on
    /\ pulls' = pulls + 1
    /\ \E l \in Labels :
        LET partition == esp_partition_find_first(l)
            elog == << [op |-> "erase", part |-> partition.label, off |-> 0,
                        len |-> partition.size, ok |-> TRUE, dev |-> FALSE] >>
        IN  IF ~Found(partition)
            THEN ClearDone(l, "ESP_FAIL", "404 Partition not found", flash,
                           flash_log, FALSE)
            ELSE ClearDone(l, "ESP_OK", "200 success",
                           [a \in Addr |-> FILLER], elog, FALSE)

\* The body was received; l is the label scanned out of it.
ClearPartition ==
    /\ pc = "idle"
    /\ ~replay.on
    /\ pulls' = pulls + 1
    /\ \E l \in Labels, ef \in DeviceFaults :
        LET partition == esp_partition_find_first(l)
            er == esp_partition_erase_range(flash, partition, 0,
                                            partition.size, ef)
            elog == << Call("erase", partition, 0, partition.size, er) >>
        IN  IF ~Found(partition)
            THEN /\ ef = "none"
                 /\ ClearDone(l, "ESP_FAIL", "404 Partition not found",
                              flash, flash_log, FALSE)
            ELSE IF ~er.ok
            THEN /\ (ef # "none") => er.dev
                 /\ ClearDone(l, "ESP_FAIL", "500 Failed to erase partition",
                              er.flash, elog, er.dev)
            ELSE ClearDone(l, "ESP_OK", "200 success", er.flash, elog, FALSE)

(***************************************************************************)
(* The upload returned ESP_OK and the client sends the same upload (label, *)
(* length and body) once more as its next request.                         *)
(***************************************************************************)
Repeat ==
    /\ pc = "returned"
    /\ op = "upload"
    /\ result = "ESP_OK"
    /\ replay' = [on |-> TRUE, label |-> label, payload |-> payload]
    /\ pc' = "idle"
    /\ op' = "none"
    /\ label' = ""
    /\ total_len' = 0
    /\ received' = 0
    /\ write_offset' = 0
    /\ pages_compared' = 0
    /\ pages_written' = 0
    /\ write_buf' = EmptyWriteBuf
    /\ write_buf_offset' = 0
    /\ write_buf_start_addr' = 0
    /\ write_buf_active' = FALSE
    /\ bufs' = NoBufs
    /\ result' = "none"
    /\ response' = "none"
    /\ base' = flash
    /\ payload' = << >>
    /\ page_dirty' = << >>
    /\ flash_log' = << >>
    /\ memcpy_log' = {}
    /\ pulls' = 0
    /\ fault' = FALSE
    /\ UNCHANGED << flash, boot, kvs, fss, script >>

Next ==
    \/ UploadNoLabel
    \/ UploadTooLarge
    \/ UploadNotFound
    \/ UploadAllocFail
    \/ UploadStart
    \/ UploadRecvFail
    \/ UploadPage
    \/ UploadFinish
    \/ ClearAllocFail
    \/ ClearRecvFail
    \/ ClearPartition
    \/ Repeat

Spec == Init /\ [][Next]_vars

(***************************************************************************)
(* Boot selection: esp_ota_ops and the bootloader.                         *)
(***************************************************************************)
\* The labels a set_boot request carries.
BootLabels == {"factory", "ota_0", "nvs", "bogus", ""}

\* Variant: the lookup accepts a partition of any type.
FindFirstAnyType(l) == esp_partition_find_first(l)

\* esp_partition_find_first(ESP_PARTITION_TYPE_APP, ANY, label)
esp_partition_find_first_app(l) ==
    IF \E i \in DOMAIN PartitionTable :
          PartitionTable[i].label = l /\ PartitionTable[i].type = "app"
    THEN PartitionTable[CHOOSE i \in DOMAIN PartitionTable :
            /\ PartitionTable[i].label = l
            /\ PartitionTable[i].type = "app"
            /\ \A j \in DOMAIN PartitionTable :
                  (PartitionTable[j].label = l
                      /\ PartitionTable[j].type = "app") => i <= j]
    ELSE NoPartition

\* The image check of esp_ota_set_boot_partition and of the bootloader,
\* scaled: the first byte of the partition is programmed.
ImageValid(fl, p) == p.size > 0 /\ Content(fl, p)[1] = 0

\* Variant: erased OTA data select no partition.
BootPartitionNoFallback(od) == od

\* esp_ota_get_boot_partition(): the selected OTA slot, the factory
\* partition when the OTA data are erased.
esp_ota_get_boot_partition(od) == IF od = "" THEN "factory" ELSE od

\* Variant: the partition is recorded without a check of its type or image.
SetBootPartitionUnchecked(fl, od, p) ==
    IF p = NoPartition
    THEN [err |-> "ESP_ERR_INVALID_ARG", otadata |-> od]
    ELSE [err |-> "ESP_OK", otadata |-> p.label]

\* esp_ota_set_boot_partition(partition): the image is verified; "factory"
\* erases the OTA data, an OTA slot is recorded in them.
esp_ota_set_boot_partition(fl, od, p) ==
    IF p = NoPartition
    THEN [err |-> "ESP_ERR_INVALID_ARG", otadata |-> od]
    ELSE IF ~ImageValid(fl, p)
    THEN [err |-> "ESP_ERR_OTA_VALIDATE_FAILED", otadata |-> od]
    ELSE IF p.type # "app"
    THEN [err |-> "ESP_ERR_INVALID_ARG", otadata |-> od]
    ELSE IF p.subtype = "factory"
    THEN [err |-> "ESP_OK", otadata |-> ""]
    ELSE [err |-> "ESP_OK", otadata |-> p.label]

\* The values of esp_rom_get_reset_reason(0).
WatchdogResets ==
    {"CORE_MWDT0", "CORE_MWDT1", "CORE_RTC_WDT", "CPU0_MWDT0",
     "CPU0_RTC_WDT", "SYS_RTC_WDT", "CPU0_MWDT1", "SYS_SUPER_WDT"}
ResetReasons == WatchdogResets \union {"POWERON", "CORE_SW", "SYS_BROWN_OUT"}

\* Variant: the hook leaves the OTA data alone.
HookDoesNothing(od, r) == od

\* Variant: the hook erases the OTA data after every reset.
HookErasesAlways(od, r) == ""

\* bootloader_after_init(): after a watchdog reset the OTA data are erased
\* (bootloader_common_erase_part_type_data("", true)).
bootloader_after_init(od, r) == IF r \in WatchdogResets THEN "" ELSE od

\* The partition the bootloader starts: the selected one if its image is
\* valid, the factory partition otherwise.
BootloaderSelect(fl, od) ==
    IF ImageValid(fl, esp_partition_find_first_app(
                          esp_ota_get_boot_partition(od)))
    THEN esp_ota_get_boot_partition(od)
    ELSE "factory"

\* The state of the handlers when a request arrives: nothing is in progress.
\* to is "idle", or "other_app" when this application is not the one running.
NextRequest(to) ==
    /\ pc' = to
    /\ op' = "none"
    /\ label' = ""
    /\ total_len' = 0
    /\ received' = 0
    /\ write_offset' = 0
    /\ pages_compared' = 0
    /\ pages_written' = 0
    /\ write_buf' = EmptyWriteBuf
    /\ write_buf_offset' = 0
    /\ write_buf_start_addr' = 0
    /\ write_buf_active' = FALSE
    /\ bufs' = NoBufs
    /\ result' = "none"
    /\ response' = "none"
    /\ base' = flash
    /\ payload' = << >>
    /\ page_dirty' = << >>
    /\ flash_log' = << >>
    /\ memcpy_log' = {}
    /\ pulls' = 0
    /\ fault' = FALSE
    /\ ota_calls' = 0

\* The handler returned; the server waits for the next request.
Return ==
    /\ pc = "returned"
    /\ NextRequest("idle")
    /\ UNCHANGED << flash, replay, otadata, running, reset_reason, kvs, fss,
                    script >>

\* The chip was reset for reason r: the bootloader runs its hook, selects
\* the partition to start and starts it.
Bootloader(r) ==
    LET od == bootloader_after_init(otadata, r)
        run == BootloaderSelect(flash, od)
    IN  /\ otadata' = od
        /\ running' = run
        /\ reset_reason' = r
        /\ NextRequest(IF run = "factory" THEN "idle" ELSE "other_app")
        /\ UNCHANGED << flash, replay, kvs, fss, script >>

\* A reset that is not requested through the server, at any time.
Reset == \E r \in ResetReasons \ {"CORE_SW"} : Bootloader(r)

(***************************************************************************)
(* reset_handler: esp_restart().                                           *)
(***************************************************************************)
ResetRequest ==
    /\ pc = "idle"
    /\ Bootloader("CORE_SW")

(***************************************************************************)
(* set_boot_partition_handler.                                             *)
(***************************************************************************)
SetBootDone(l, res, resp, od, calls, flt, p) ==
    /\ pc' = "returned"
    /\ op' = "set_boot"
    /\ label' = l
    /\ result' = res
    /\ response' = resp
    /\ otadata' = od
    /\ ota_calls' = calls
    /\ fault' = flt
    /\ pulls' = p
    /\ UNCHANGED << flash, total_len, received, write_offset, pages_compared,
                    pages_written, write_buf, write_buf_offset,
                    write_buf_start_addr, write_buf_active, bufs, base,
                    payload, page_dirty, flash_log, memcpy_log, replay,
                    running, reset_reason, kvs, fss, script >>

\* malloc(512) returned NULL.
SetBootAllocFail ==
    /\ pc = "idle"
    /\ SetBootDone("", "ESP_FAIL", "500 Memory allocation failed", otadata,
                   ota_calls, TRUE, pulls)

\* httpd_req_recv returned <= 0.
SetBootRecvFail ==
    /\ pc = "idle"
    /\ SetBootDone("", "ESP_FAIL", "400 Invalid request", otadata,
                   ota_calls, TRUE, pulls + 1)

\* The body was received; l is the label scanned out of it.
SetBoot ==
    /\ pc = "idle"
    /\ \E l \in BootLabels :
        LET partition == esp_partition_find_first_app(l)
            set == esp_ota_set_boot_partition(flash, otadata, partition)
        IN  IF l = ""
            THEN SetBootDone(l, "ESP_FAIL", "400 Partition label required",
                             otadata, ota_calls, FALSE, pulls + 1)
            ELSE IF ~Found(partition)
            THEN SetBootDone(l, "ESP_FAIL", "404 Partition not found",
                             otadata, ota_calls, FALSE, pulls + 1)
            ELSE IF set.err # "ESP_OK"
            THEN SetBootDone(l, "ESP_FAIL",
                             "500 Failed to set boot partition",
                             set.otadata, ota_calls + 1, FALSE, pulls + 1)
            ELSE SetBootDone(l, "ESP_OK", "200 success", set.otadata,
                             ota_calls + 1, FALSE, pulls + 1)

\* The image the client installs: one page and one byte more.
ClientImage == [i \in 1 .. (PAGE + 1) |-> 0]

\* The device as shipped: "ota_0" erased, the OTA data erased, the factory
\* application started; the client holds an image for "ota_0".
BootInit ==
    /\ flash = [a \in Addr |->
                  IF a < Ota0Pages * PAGE THEN FILLER
                  ELSE IF a < (Ota0Pages * PAGE) + PAGE
                  THEN NvsInit[(a - (Ota0Pages * PAGE)) + 1]
                  ELSE FactoryImage[(a - ((Ota0Pages * PAGE) + PAGE)) + 1]]
    /\ pc = "idle"
    /\ op = "none"
    /\ label = ""
    /\ total_len = 0
    /\ received = 0
    /\ write_offset = 0
    /\ pages_compared = 0
    /\ pages_written = 0
    /\ write_buf = EmptyWriteBuf
    /\ write_buf_offset = 0
    /\ write_buf_start_addr = 0
    /\ write_buf_active = FALSE
    /\ bufs = NoBufs
    /\ result = "none"
    /\ response = "none"
    /\ base = flash
    /\ payload = << >>
    /\ page_dirty = << >>
    /\ flash_log = << >>
    /\ memcpy_log = {}
    /\ pulls = 0
    /\ fault = FALSE
    /\ replay = [on |-> FALSE, label |-> "ota_0", payload |-> ClientImage]
    /\ otadata = ""
    /\ running = "factory"
    /\ reset_reason = "POWERON"
    /\ ota_calls = 0
    /\ nvs_entries = [a \in Namespaces \X StoreKeys |-> NoEntry]
    /\ nvs_namespaces = {}
    /\ empty_ns_ok = TRUE
    /\ kv_item = OtherItem
    /\ kv_cur = NoRequest
    /\ fs_files = [n \in FileNames |-> NoFile]
    /\ fs_mounted = {}
    /\ fs_cur = NoFsRequest
    /\ fs_base = fs_files
    /\ script = NoScript

BootNext ==
    \/ UploadNoLabel
    \/ UploadTooLarge
    \/ UploadNotFound
    \/ UploadAllocFail
    \/ UploadStart
    \/ UploadRecvFail
    \/ UploadPage
    \/ UploadFinish
    \/ ClearAllocFail
    \/ ClearRecvFail
    \/ ClearPartition
    \/ SetBootAllocFail
    \/ SetBootRecvFail
    \/ SetBoot
    \/ ResetRequest
    \/ Reset
    \/ Return

BootSpec == BootInit /\ [][BootNext]_vars

(***************************************************************************)
(* nvs_set_handler, nvs_get_handler, nvs_delete_handler.                   *)
(***************************************************************************)
\* The handler sent its response and returned.
NvsDone(rec, entries, names) ==
    /\ pc' = "returned"
    /\ op' = rec.op
    /\ result' = rec.res
    /\ response' = rec.resp
    /\ kv_cur' = rec
    /\ nvs_entries' = entries
    /\ nvs_namespaces' = names
    /\ UNCHANGED << flash, locals, bufs, hist, replay, boot, empty_ns_ok,
                    kv_item, fss, script >>

\* The request of a handler that failed before it had scanned its body.
NvsUnread(o, resp) ==
    NvsRequest(o, "", "", "", -1, Str(""), "ESP_FAIL", resp, NoEntry, {},
               "none")

\* nvs_list_handler: malloc(16384) returned NULL.
NvsListAllocFail ==
    /\ pc = "idle"
    /\ \E part \in NvsPartitions \ {""} :
        NvsDone(NvsRequest("nvs_list", part, "", "", -1, Str(""), "ESP_FAIL",
                           "500 Memory allocation failed", NoEntry, {},
                           "none"),
                nvs_entries, nvs_namespaces)

\* nvs_list_handler: the entries of all namespaces are printed.
NvsList ==
    /\ pc = "idle"
    /\ \E part \in NvsPartitions :
        LET Req(res, resp, listed) ==
                NvsRequest("nvs_list", part, "", "", -1, Str(""), res, resp,
                           NoEntry, listed, "none")
        IN  IF part = ""
            THEN NvsDone(Req("ESP_FAIL", "400 Partition name required", {}),
                         nvs_entries, nvs_namespaces)
            ELSE NvsDone(Req("ESP_OK", "200 keys",
                             ListedEntries(part, nvs_entries)),
                         nvs_entries, nvs_namespaces)

\* nvs_set_handler: malloc(1024) returned NULL.
NvsSetAllocFail ==
    /\ pc = "idle"
    /\ NvsDone(NvsUnread("nvs_set", "500 Memory allocation failed"),
               nvs_entries, nvs_namespaces)

\* nvs_set_handler: httpd_req_recv returned <= 0.
NvsSetRecvFail ==
    /\ pc = "idle"
    /\ NvsDone(NvsUnread("nvs_set", "400 Invalid request"),
               nvs_entries, nvs_namespaces)

\* nvs_set_handler with the request scanned.
NvsSet ==
    /\ pc = "idle"
    /\ \E item \in {kv_item, OtherItem}, a \in NvsAddresses :
        LET part == a[1]
            key == a[2]
            open == nvs_open_from_partition(part, item.ns, "NVS_READWRITE",
                                            nvs_namespaces, empty_ns_ok)
            Req(res, resp, commit) ==
                NvsRequest("nvs_set", part, item.ns, key, item.type,
                           item.value, res, resp, NoEntry, {}, commit)
        IN  IF part = "" \/ key = "" \/ item.type < 0
            THEN NvsDone(Req("ESP_FAIL",
                             "400 Partition, key, and type required", "none"),
                         nvs_entries, nvs_namespaces)
            ELSE IF open.err # "ESP_OK"
            THEN NvsDone(Req("ESP_FAIL", "500 Failed to open NVS", "none"),
                         nvs_entries, nvs_namespaces)
            ELSE IF TypeSwitch(item.type) = "blob"
            THEN NvsDone(Req("ESP_FAIL", "400 Cannot edit BLOB data", "none"),
                         nvs_entries, open.names)
            ELSE IF TypeSwitch(item.type) = "mismatch"
            THEN NvsDone(Req("ESP_FAIL", "500 Failed to write key", "none"),
                         nvs_entries, open.names)
            ELSE \E c \in nvs_commit(nvs_entries,
                                     [nvs_entries EXCEPT ![<< item.ns, key >>] =
                                         EntryOf(item.type, item.value)]) :
                    NvsDone(Req("ESP_OK", "200 Key updated", c.err),
                            c.entries, open.names)

\* nvs_get_handler: the entries of the namespace "" are searched for the key.
NvsGet ==
    /\ pc = "idle"
    /\ \E a \in NvsAddresses :
        LET part == a[1]
            key == a[2]
            open == nvs_open_from_partition(part, "", "NVS_READONLY",
                                            nvs_namespaces, empty_ns_ok)
            Req(res, resp, out) ==
                NvsRequest("nvs_get", part, "", key, -1, Str(""), res, resp,
                           out, {}, "none")
        IN  IF part = "" \/ key = ""
            THEN NvsDone(Req("ESP_FAIL", "400 Partition and key required",
                             NoEntry),
                         nvs_entries, nvs_namespaces)
            ELSE IF open.err # "ESP_OK"
            THEN NvsDone(Req("ESP_FAIL", "500 Failed to open NVS", NoEntry),
                         nvs_entries, nvs_namespaces)
            ELSE IF nvs_entries[<< "", key >>] = NoEntry
            THEN NvsDone(Req("ESP_OK", "200 Key not found", NoEntry),
                         nvs_entries, open.names)
            ELSE NvsDone(Req("ESP_OK", "200 entry",
                             [type |-> nvs_entries[<< "", key >>].type,
                              value |-> GetValueText(
                                           nvs_entries[<< "", key >>])]),
                         nvs_entries, open.names)

\* nvs_delete_handler: malloc(512) returned NULL.
NvsDeleteAllocFail ==
    /\ pc = "idle"
    /\ NvsDone(NvsUnread("nvs_delete", "500 Memory allocation failed"),
               nvs_entries, nvs_namespaces)

\* nvs_delete_handler: httpd_req_recv returned <= 0.
NvsDeleteRecvFail ==
    /\ pc = "idle"
    /\ NvsDone(NvsUnread("nvs_delete", "400 Invalid request"),
               nvs_entries, nvs_namespaces)

\* nvs_delete_handler: the key is erased in the namespace "".
NvsDelete ==
    /\ pc = "idle"
    /\ \E a \in NvsAddresses :
        LET part == a[1]
            key == a[2]
            open == nvs_open_from_partition(part, "", "NVS_READWRITE",
                                            nvs_namespaces, empty_ns_ok)
            Req(res, resp, commit) ==
                NvsRequest("nvs_delete", part, "", key, -1, Str(""), res,
                           resp, NoEntry, {}, commit)
        IN  IF part = "" \/ key = ""
            THEN NvsDone(Req("ESP_FAIL", "400 Partition and key required",
                             "none"),
                         nvs_entries, nvs_namespaces)
            ELSE IF open.err # "ESP_OK"
            THEN NvsDone(Req("ESP_FAIL", "500 Failed to open NVS", "none"),
                         nvs_entries, nvs_namespaces)
            ELSE IF nvs_entries[<< "", key >>] = NoEntry
            THEN NvsDone(Req("ESP_FAIL", "500 Failed to delete key", "none"),
                         nvs_entries, open.names)
            ELSE \E c \in nvs_commit(nvs_entries,
                                     [nvs_entries EXCEPT ![<< "", key >>] =
                                         NoEntry]) :
                    NvsDone(Req("ESP_OK", "200 Key deleted", c.err),
                            c.entries, open.names)

\* The entries the client edits.
KvItems ==
    {[ns |-> n, type |-> t, value |-> v] :
        n \in Namespaces, t \in TypeCodes, v \in ValueTexts}

\* The store is empty; the client has chosen the entry it edits.
KvInit ==
    /\ flash = [a \in Addr |->
                  IF a < Ota0Pages * PAGE THEN FILLER
                  ELSE IF a < (Ota0Pages * PAGE) + PAGE
                  THEN NvsInit[(a - (Ota0Pages * PAGE)) + 1]
                  ELSE FactoryImage[(a - ((Ota0Pages * PAGE) + PAGE)) + 1]]
    /\ pc = "idle"
    /\ op = "none"
    /\ label = ""
    /\ total_len = 0
    /\ received = 0
    /\ write_offset = 0
    /\ pages_compared = 0
    /\ pages_written = 0
    /\ write_buf = EmptyWriteBuf
    /\ write_buf_offset = 0
    /\ write_buf_start_addr = 0
    /\ write_buf_active = FALSE
    /\ bufs = NoBufs
    /\ result = "none"
    /\ response = "none"
    /\ base = flash
    /\ payload = << >>
    /\ page_dirty = << >>
    /\ flash_log = << >>
    /\ memcpy_log = {}
    /\ pulls = 0
    /\ fault = FALSE
    /\ replay = NoReplay
    /\ otadata = ""
    /\ running = "factory"
    /\ reset_reason = "POWERON"
    /\ ota_calls = 0
    /\ nvs_entries = [a \in Namespaces \X StoreKeys |-> NoEntry]
    /\ nvs_namespaces = {}
    /\ empty_ns_ok \in BOOLEAN
    /\ kv_item \in KvItems
    /\ kv_cur = NoRequest
    /\ fs_files = [n \in FileNames |-> NoFile]
    /\ fs_mounted = {}
    /\ fs_cur = NoFsRequest
    /\ fs_base = fs_files
    /\ script = NoScript

KvNext ==
    \/ NvsListAllocFail
    \/ NvsList
    \/ NvsSetAllocFail
    \/ NvsSetRecvFail
    \/ NvsSet
    \/ NvsGet
    \/ NvsDeleteAllocFail
    \/ NvsDeleteRecvFail
    \/ NvsDelete
    \/ Return

KvSpec == KvInit /\ [][KvNext]_vars

(***************************************************************************)
(* spiffs_list_handler, spiffs_upload_handler, spiffs_download_handler,    *)
(* spiffs_delete_handler.                                                  *)
(***************************************************************************)
\* The handler sent its response and returned.
FsDone(rec, files, mounted) ==
    /\ pc' = "returned"
    /\ op' = rec.op
    /\ result' = rec.res
    /\ response' = rec.resp
    /\ fs_cur' = rec
    /\ fs_files' = files
    /\ fs_mounted' = mounted
    /\ fs_base' = (IF pc = "idle" THEN fs_files ELSE fs_base)
    /\ UNCHANGED << flash, locals, bufs, hist, replay, boot, kvs, script >>

\* The handler entered or continues its loop.
FsLoop(p, rec, files, mounted) ==
    /\ pc' = p
    /\ op' = rec.op
    /\ fs_cur' = rec
    /\ fs_files' = files
    /\ fs_mounted' = mounted
    /\ fs_base' = (IF pc = "idle" THEN fs_files ELSE fs_base)
    /\ UNCHANGED << flash, locals, bufs, result, response, hist, replay, boot,
                    kvs, script >>

\* The request of a handler that failed before it had scanned its body.
FsUnread(o, resp) ==
    FsRequest(o, "", "", 0, 0, "ESP_FAIL", resp, << >>, {})

\* spiffs_list_handler.
FsList ==
    /\ pc = "idle"
    /\ \E part \in FsPartitions, alloc \in BOOLEAN :
       \E m \in esp_vfs_spiffs_register(part, fs_mounted) :
        LET Req(res, resp, listed) ==
                FsRequest("fs_list", part, "", 0, 0, res, resp, << >>, listed)
        IN  IF part = ""
            THEN FsDone(Req("ESP_FAIL", "400 Partition name required", {}),
                        fs_files, fs_mounted)
            ELSE IF ~FindSpiffs(part)
            THEN FsDone(Req("ESP_FAIL", "404 Partition not found", {}),
                        fs_files, fs_mounted)
            ELSE IF m.err \notin {"ESP_OK", "ESP_ERR_INVALID_STATE"}
            THEN FsDone(Req("ESP_FAIL", "500 Failed to mount partition", {}),
                        fs_files, m.mounted)
            ELSE IF ~alloc
            THEN FsDone(Req("ESP_FAIL", "500 Memory allocation failed", {}),
                        fs_files,
                        esp_vfs_spiffs_unregister(part, m.mounted))
            ELSE FsDone(Req("ESP_OK", "200 files",
                            {[name |-> n, size |-> Len(fs_files[n])] :
                                n \in {f \in FileNames :
                                          fs_files[f] # NoFile}}),
                        fs_files,
                        esp_vfs_spiffs_unregister(part, m.mounted))

\* spiffs_upload_handler: malloc(512) returned NULL.
FsUploadAllocFail ==
    /\ pc = "idle"
    /\ FsDone(FsUnread("fs_upload", "500 Memory allocation failed"),
              fs_files, fs_mounted)

\* spiffs_upload_handler up to the receive loop: parameters, partition,
\* mount, fopen(filepath, "wb").
FsUploadStart ==
    /\ pc = "idle"
    /\ \E part \in FsPartitions, name \in FsNames, total \in 0 .. MaxFileLen,
          fopen \in BOOLEAN :
       \E m \in esp_vfs_spiffs_register(part, fs_mounted) :
        LET Req(res, resp) ==
                FsRequest("fs_upload", part, name, total, 0, res, resp,
                          << >>, {})
        IN  IF name = "" \/ part = ""
            THEN FsDone(Req("ESP_FAIL",
                            "400 Filename and partition required"),
                        fs_files, fs_mounted)
            ELSE IF ~FindSpiffs(part)
            THEN FsDone(Req("ESP_FAIL", "404 Partition not found"),
                        fs_files, fs_mounted)
            ELSE IF m.err \notin {"ESP_OK", "ESP_ERR_INVALID_STATE"}
            THEN FsDone(Req("ESP_FAIL", "500 Failed to mount partition"),
                        fs_files, m.mounted)
            ELSE IF ~fopen
            THEN FsDone(Req("ESP_FAIL", "500 Failed to create file"),
                        fs_files,
                        esp_vfs_spiffs_unregister(part, m.mounted))
            ELSE FsLoop("fs_upload_loop", Req("none", "none"),
                        [fs_files EXCEPT ![name] = << >>], m.mounted)

\* Variant: a failed upload leaves the file it has written.
FsUploadAbortKeepsFile(resp) ==
    FsDone([fs_cur EXCEPT !.res = "ESP_FAIL", !.resp = resp],
           fs_files,
           esp_vfs_spiffs_unregister(fs_cur.part, fs_mounted))

\* Variant: a failed upload puts back the file the name held before.
FsUploadAbortRestores(resp) ==
    FsDone([fs_cur EXCEPT !.res = "ESP_FAIL", !.resp = resp],
           [fs_files EXCEPT ![fs_cur.name] = fs_base[fs_cur.name]],
           esp_vfs_spiffs_unregister(fs_cur.part, fs_mounted))

\* spiffs_upload_handler: fclose, unlink, unregister, error response.
FsUploadAbort(resp) ==
    FsDone([fs_cur EXCEPT !.res = "ESP_FAIL", !.resp = resp],
           unlink(fs_files, fs_cur.name).files,
           esp_vfs_spiffs_unregister(fs_cur.part, fs_mounted))

\* spiffs_upload_handler: one httpd_req_recv that delivers bytes, and the
\* fwrite of them.
FsUploadData ==
    /\ pc = "fs_upload_loop"
    /\ fs_cur.received < fs_cur.total
    /\ \E n \in 1 .. Min(UploadChunk, fs_cur.total - fs_cur.received),
          fwrite \in BOOLEAN :
        IF fwrite
        THEN FsLoop("fs_upload_loop",
                    [fs_cur EXCEPT !.received = @ + n],
                    [fs_files EXCEPT ![fs_cur.name] =
                        @ \o [i \in 1 .. n |-> BodyByte(fs_cur.received + i)]],
                    fs_mounted)
        ELSE FsUploadAbort("500 Write failed")

\* spiffs_upload_handler: httpd_req_recv returned <= 0; the loop is left
\* with received # total_len.
FsUploadRecvFail ==
    /\ pc = "fs_upload_loop"
    /\ fs_cur.received < fs_cur.total
    /\ FsUploadAbort("500 Upload incomplete")

\* spiffs_upload_handler: the body is complete.
FsUploadFinish ==
    /\ pc = "fs_upload_loop"
    /\ fs_cur.received >= fs_cur.total
    /\ FsDone([fs_cur EXCEPT !.res = "ESP_OK", !.resp = "200 File uploaded"],
              fs_files,
              esp_vfs_spiffs_unregister(fs_cur.part, fs_mounted))

\* spiffs_download_handler up to the read loop: parameters, partition,
\* mount, fopen(filepath, "rb"), malloc(4096).
FsDownloadStart ==
    /\ pc = "idle"
    /\ \E part \in FsPartitions, name \in FsNames, alloc \in BOOLEAN :
       \E m \in esp_vfs_spiffs_register(part, fs_mounted) :
        LET Req(res, resp) ==
                FsRequest("fs_download", part, name, 0, 0, res, resp,
                          << >>, {})
        IN  IF name = "" \/ part = ""
            THEN FsDone(Req("ESP_FAIL",
                            "400 Filename and partition required"),
                        fs_files, fs_mounted)
            ELSE IF ~FindSpiffs(part)
            THEN FsDone(Req("ESP_FAIL", "404 Partition not found"),
                        fs_files, fs_mounted)
            ELSE IF m.err \notin {"ESP_OK", "ESP_ERR_INVALID_STATE"}
            THEN FsDone(Req("ESP_FAIL", "500 Failed to mount partition"),
                        fs_files, m.mounted)
            ELSE IF fs_files[name] = NoFile
            THEN FsDone(Req("ESP_FAIL", "404 File not found"),
                        fs_files,
                        esp_vfs_spiffs_unregister(part, m.mounted))
            ELSE IF ~alloc
            THEN FsDone(Req("ESP_FAIL", "500 Memory allocation failed"),
                        fs_files,
                        esp_vfs_spiffs_unregister(part, m.mounted))
            ELSE FsLoop("fs_download_loop", Req("none", "none"),
                        fs_files, m.mounted)

\* The bytes of the file the download has not streamed yet.
FsUnsent == Len(fs_files[fs_cur.name]) - Len(fs_cur.sent)

\* spiffs_download_handler after the loop: the closing chunk, fclose, free,
\* unregister, return ESP_OK.
FsDownloadExit ==
    FsDone([fs_cur EXCEPT !.res = "ESP_OK", !.resp = "200 stream"],
           fs_files,
           esp_vfs_spiffs_unregister(fs_cur.part, fs_mounted))

\* spiffs_download_handler: fread delivered bytes and the chunk was sent.
FsDownloadChunk ==
    /\ pc = "fs_download_loop"
    /\ FsUnsent > 0
    /\ FsLoop("fs_download_loop",
              [fs_cur EXCEPT !.sent =
                  @ \o SubSeq(fs_files[fs_cur.name], Len(@) + 1,
                              Len(@) + Min(DownloadChunk, FsUnsent))],
              fs_files, fs_mounted)

\* spiffs_download_handler: httpd_resp_send_chunk failed; break.
FsDownloadSendFail ==
    /\ pc = "fs_download_loop"
    /\ FsUnsent > 0
    /\ FsDownloadExit

\* spiffs_download_handler: fread returned 0 before the end of the file (a
\* read error).
FsDownloadReadFail ==
    /\ pc = "fs_download_loop"
    /\ FsUnsent > 0
    /\ FsDownloadExit

\* spiffs_download_handler: fread returned 0 at the end of the file.
FsDownloadEnd ==
    /\ pc = "fs_download_loop"
    /\ FsUnsent = 0
    /\ FsDownloadExit

\* spiffs_delete_handler: malloc(512) returned NULL.
FsDeleteAllocFail ==
    /\ pc = "idle"
    /\ FsDone(FsUnread("fs_delete", "500 Memory allocation failed"),
              fs_files, fs_mounted)

\* spiffs_delete_handler: httpd_req_recv returned <= 0.
FsDeleteRecvFail ==
    /\ pc = "idle"
    /\ FsDone(FsUnread("fs_delete", "400 Invalid request"),
              fs_files, fs_mounted)

\* spiffs_delete_handler with the request scanned.
FsDelete ==
    /\ pc = "idle"
    /\ \E part \in FsPartitions, name \in FsNames :
       \E m \in esp_vfs_spiffs_register(part, fs_mounted) :
        LET Req(res, resp) ==
                FsRequest("fs_delete", part, name, 0, 0, res, resp, << >>,
                          {})
        IN  IF name = "" \/ part = ""
            THEN FsDone(Req("ESP_FAIL",
                            "400 Filename and partition required"),
                        fs_files, fs_mounted)
            ELSE IF ~FindSpiffs(part)
            THEN FsDone(Req("ESP_FAIL", "404 Partition not found"),
                        fs_files, fs_mounted)
            ELSE IF m.err \notin {"ESP_OK", "ESP_ERR_INVALID_STATE"}
            THEN FsDone(Req("ESP_FAIL", "500 Failed to mount partition"),
                        fs_files, m.mounted)
            ELSE IF ~unlink(fs_files, name).ok
            THEN FsDone(Req("ESP_FAIL", "500 Failed to delete file"),
                        fs_files,
                        esp_vfs_spiffs_unregister(part, m.mounted))
            ELSE FsDone(Req("ESP_OK", "200 File deleted"),
                        unlink(fs_files, name).files,
                        esp_vfs_spiffs_unregister(part, m.mounted))

\* The partition "spiffs" holds the file "a" or no file.
FsInit ==
    /\ flash = [a \in Addr |->
                  IF a < Ota0Pages * PAGE THEN FILLER
                  ELSE IF a < (Ota0Pages * PAGE) + PAGE
                  THEN NvsInit[(a - (Ota0Pages * PAGE)) + 1]
                  ELSE FactoryImage[(a - ((Ota0Pages * PAGE) + PAGE)) + 1]]
    /\ pc = "idle"
    /\ op = "none"
    /\ label = ""
    /\ total_len = 0
    /\ received = 0
    /\ write_offset = 0
    /\ pages_compared = 0
    /\ pages_written = 0
    /\ write_buf = EmptyWriteBuf
    /\ write_buf_offset = 0
    /\ write_buf_start_addr = 0
    /\ write_buf_active = FALSE
    /\ bufs = NoBufs
    /\ result = "none"
    /\ response = "none"
    /\ base = flash
    /\ payload = << >>
    /\ page_dirty = << >>
    /\ flash_log = << >>
    /\ memcpy_log = {}
    /\ pulls = 0
    /\ fault = FALSE
    /\ replay = NoReplay
    /\ otadata = ""
    /\ running = "factory"
    /\ reset_reason = "POWERON"
    /\ ota_calls = 0
    /\ nvs_entries = [a \in Namespaces \X StoreKeys |-> NoEntry]
    /\ nvs_namespaces = {}
    /\ empty_ns_ok = TRUE
    /\ kv_item = OtherItem
    /\ kv_cur = NoRequest
    /\ fs_files \in {[n \in FileNames |-> NoFile],
                     [n \in FileNames |->
                         IF n = "a" THEN StoredFile ELSE NoFile]}
    /\ fs_mounted = {}
    /\ fs_cur = NoFsRequest
    /\ fs_base = fs_files
    /\ script = NoScript

FsNext ==
    \/ FsList
    \/ FsUploadAllocFail
    \/ FsUploadStart
    \/ FsUploadData
    \/ FsUploadRecvFail
    \/ FsUploadFinish
    \/ FsDownloadStart
    \/ FsDownloadChunk
    \/ FsDownloadSendFail
    \/ FsDownloadReadFail
    \/ FsDownloadEnd
    \/ FsDeleteAllocFail
    \/ FsDeleteRecvFail
    \/ FsDelete
    \/ Return

FsSpec == FsInit /\ [][FsNext]_vars

(***************************************************************************)
(* The updater script (a host program that drives the device over HTTP).   *)
(***************************************************************************)
\* WIFI_SSID: the access point of the device.
WIFI_SSID == "ESP-Recovery"

\* The network the host is joined to when the script starts ("": none).
HostNetworks == {"", "home"}

\* The application that answers at IP_ADDRESS when the script starts.
Applications == {"factory", "ota_0"}

\* The URIs the script requests.
RESET_URL == "/command/resetToOTAUpdater"
UPLOAD_URL == "/upload"
SET_BOOT_URL == "/set_boot"
RESTART_URL == "/reset"

\* The URIs start_webserver registers a handler for.
RegisteredUris ==
    {"/", "/upload", "/download", "/status", "/clear", "/set_boot", "/reset",
     "/spiffs/list", "/spiffs/upload", "/spiffs/download", "/spiffs/delete",
     "/nvs/list", "/nvs/get", "/nvs/delete", "/nvs/set"}

\* An answer as curl reports it: the status code ("000": no answer) and
\* whether the body holds "status":"success".
Answer(code, success) == [code |-> code, success |-> success]
NoAnswer == Answer("000", FALSE)

\* http_404_handler: the answer to a request no handler is registered for.
http_404_handler == Answer("303", FALSE)

\* The answers of this application's handlers: the success answer, or an
\* error sent with httpd_resp_send_err.
HandlerAnswers ==
    {Answer("200", TRUE)}
        \union {Answer(c, FALSE) : c \in {"400", "404", "413", "500"}}

\* The answers of another application, of which nothing is known.
OtherAnswers ==
    {Answer(c, b) : c \in {"200", "202", "404", "500"}, b \in BOOLEAN}

\* What curl reports for a request of uri when application run answers.
Answers(run, uri) ==
    {NoAnswer} \union
        (IF run # "factory" THEN OtherAnswers
         ELSE IF uri \notin RegisteredUris THEN {http_404_handler}
         ELSE IF uri = RESTART_URL THEN {Answer("200", FALSE)}
         ELSE HandlerAnswers)

\* wifi_connect: the host joins ssid, or fails after three attempts and is
\* left on its network or on none.
wifi_connect(net, ssid) ==
    {[ok |-> TRUE, net |-> ssid], [ok |-> FALSE, net |-> net],
     [ok |-> FALSE, net |-> ""]}

\* The script after its arguments were parsed and checked.
ScriptStart(skip, net) ==
    [NoScript EXCEPT !.pc = "save_wifi", !.SKIP_WIFI = skip, !.net = net]

\* exit n
Exit(s, n) == [s EXCEPT !.pc = "exited", !.exit = n]

\* cleanup_on_error: the outcomes of the attempt to rejoin the original
\* network, which is made when one was saved, WiFi is not skipped and the
\* script has connected to the device.
cleanup_on_error(s) ==
    IF (~s.SKIP_WIFI) /\ s.ORIGINAL_SSID # "" /\ s.CONNECTED_TO_ESP
    THEN {[s EXCEPT !.reconnects = @ + 1, !.net = c.net] :
             c \in wifi_connect(s.net, s.ORIGINAL_SSID)}
    ELSE {s}

\* The request of uri that application run answered with a.
Sent(uri, run, a) ==
    [uri |-> uri, by |-> run, code |-> a.code, success |-> a.success]

\* Variant: the status code alone decides.
SucceededByCode(a) == a.code = "200"

\* HTTP_RESPONSE is "200" and the body holds "status":"success".
Succeeded(a) == a.code = "200" /\ a.success

\* A step of the script that leaves the device as it is.
ScriptStep(s) ==
    /\ script' = s
    /\ UNCHANGED << flash, pc, op, locals, bufs, result, response, hist,
                    replay, boot, kvs, fss >>

\* A step of the script after which application run answers.
DeviceRuns(s, run) ==
    /\ script' = s
    /\ running' = run
    /\ pc' = (IF run = "factory" THEN "idle" ELSE "other_app")
    /\ UNCHANGED << flash, op, locals, bufs, result, response, hist, replay,
                    otadata, reset_reason, ota_calls, kvs, fss >>

\* "Save original WiFi connection".
ScriptSaveWifi ==
    /\ script.pc = "save_wifi"
    /\ ScriptStep([script EXCEPT
           !.pc = "connect",
           !.ORIGINAL_SSID = IF script.SKIP_WIFI THEN @ ELSE script.net])

\* Step 1: connect to the access point of the device.
ScriptConnect ==
    /\ script.pc = "connect"
    /\ \E iface \in BOOLEAN, c \in wifi_connect(script.net, WIFI_SSID) :
        IF script.SKIP_WIFI
        THEN /\ iface /\ c.ok
             /\ ScriptStep([script EXCEPT !.pc = "probe",
                                          !.CONNECTED_TO_ESP = TRUE])
        ELSE IF ~iface
        THEN /\ c.ok
             /\ ScriptStep(Exit(script, 1))
        ELSE IF ~c.ok
        THEN ScriptStep(Exit([script EXCEPT !.net = c.net], 1))
        ELSE ScriptStep([script EXCEPT !.pc = "probe", !.net = c.net,
                                       !.CONNECTED_TO_ESP = TRUE])

\* Step 2: the reset command.  An application other than this one that
\* accepts it restarts the device, into this application or not.
ScriptProbe ==
    /\ script.pc = "probe"
    /\ \E a \in Answers(running, RESET_URL), run \in Applications :
        LET s == [script EXCEPT
                     !.HTTP_RESPONSE = a.code,
                     !.sent = Append(@, Sent(RESET_URL, running, a)),
                     !.pc = IF a.code = "404" THEN "upload" ELSE "rejoin"]
        IN  /\ (running = "factory" \/ a.code \notin {"200", "202"})
                 => run = running
            /\ DeviceRuns(s, run)

\* Steps 3 to 5: disconnect, wait, connect to the device again.
ScriptRejoin ==
    /\ script.pc = "rejoin"
    /\ \E c \in wifi_connect(IF script.SKIP_WIFI THEN script.net ELSE "",
                             WIFI_SSID) :
        IF ~c.ok
        THEN ScriptStep(Exit([script EXCEPT !.net = c.net], 1))
        ELSE ScriptStep([script EXCEPT !.pc = "reprobe", !.net = c.net])

\* Step 6: the reset command again; anything but 404 ends the script.
ScriptReprobe ==
    /\ script.pc = "reprobe"
    /\ \E a \in Answers(running, RESET_URL) :
        LET s == [script EXCEPT
                     !.HTTP_RESPONSE = a.code,
                     !.sent = Append(@, Sent(RESET_URL, running, a))]
        IN  IF a.code # "404"
            THEN ScriptStep(Exit(s, 1))
            ELSE ScriptStep([s EXCEPT !.pc = "upload"])

\* Step 7: upload the firmware file.
ScriptUpload ==
    /\ script.pc = "upload"
    /\ \E a \in Answers(running, UPLOAD_URL) :
        LET s == [script EXCEPT
                     !.HTTP_RESPONSE = a.code,
                     !.sent = Append(@, Sent(UPLOAD_URL, running, a))]
        IN  IF ~Succeeded(a)
            THEN \E t \in cleanup_on_error(s) : ScriptStep(Exit(t, 1))
            ELSE ScriptStep([s EXCEPT !.pc = "set_boot"])

\* Step 8: set the boot partition.
ScriptSetBoot ==
    /\ script.pc = "set_boot"
    /\ \E a \in Answers(running, SET_BOOT_URL) :
        LET s == [script EXCEPT
                     !.HTTP_RESPONSE = a.code,
                     !.sent = Append(@, Sent(SET_BOOT_URL, running, a))]
        IN  IF ~Succeeded(a)
            THEN \E t \in cleanup_on_error(s) : ScriptStep(Exit(t, 1))
            ELSE ScriptStep([s EXCEPT !.pc = "restart"])

\* Step 9: restart the device; it starts this application or another one.
ScriptRestart ==
    /\ script.pc = "restart"
    /\ \E a \in Answers(running, RESTART_URL), run \in Applications :
        LET s == [script EXCEPT
                     !.HTTP_RESPONSE = a.code,
                     !.sent = Append(@, Sent(RESTART_URL, running, a)),
                     !.pc = "restore"]
        IN  /\ (a = NoAnswer) => run = running
            /\ DeviceRuns(s, run)

\* Step 10: rejoin the original network, then exit 0.
ScriptRestore ==
    /\ script.pc = "restore"
    /\ IF (~script.SKIP_WIFI) /\ script.ORIGINAL_SSID # ""
       THEN \E c \in wifi_connect(script.net, script.ORIGINAL_SSID) :
               ScriptStep(Exit([script EXCEPT !.net = c.net], 0))
       ELSE ScriptStep(Exit(script, 0))

\* A device with "ota_0" erased that runs this application or another one;
\* the script has parsed its arguments.
ScriptInit ==
    /\ flash = [a \in Addr |->
                  IF a < Ota0Pages * PAGE THEN FILLER
                  ELSE IF a < (Ota0Pages * PAGE) + PAGE
                  THEN NvsInit[(a - (Ota0Pages * PAGE)) + 1]
                  ELSE FactoryImage[(a - ((Ota0Pages * PAGE) + PAGE)) + 1]]
    /\ running \in Applications
    /\ pc = (IF running = "factory" THEN "idle" ELSE "other_app")
    /\ op = "none"
    /\ label = ""
    /\ total_len = 0
    /\ received = 0
    /\ write_offset = 0
    /\ pages_compared = 0
    /\ pages_written = 0
    /\ write_buf = EmptyWriteBuf
    /\ write_buf_offset = 0
    /\ write_buf_start_addr = 0
    /\ write_buf_active = FALSE
    /\ bufs = NoBufs
    /\ result = "none"
    /\ response = "none"
    /\ base = flash
    /\ payload = << >>
    /\ page_dirty = << >>
    /\ flash_log = << >>
    /\ memcpy_log = {}
    /\ pulls = 0
    /\ fault = FALSE
    /\ replay = NoReplay
    /\ otadata = ""
    /\ reset_reason = "POWERON"
    /\ ota_calls = 0
    /\ nvs_entries = [a \in Namespaces \X StoreKeys |-> NoEntry]
    /\ nvs_namespaces = {}
    /\ empty_ns_ok = TRUE
    /\ kv_item = OtherItem
    /\ kv_cur = NoRequest
    /\ fs_files = [n \in FileNames |-> NoFile]
    /\ fs_mounted = {}
    /\ fs_cur = NoFsRequest
    /\ fs_base = fs_files
    /\ script \in {ScriptStart(skip, net) :
                      skip \in BOOLEAN, net \in HostNetworks}

ScriptNext ==
    \/ ScriptSaveWifi
    \/ ScriptConnect
    \/ ScriptProbe
    \/ ScriptRejoin
    \/ ScriptReprobe
    \/ ScriptUpload
    \/ ScriptSetBoot
    \/ ScriptRestart
    \/ ScriptRestore

ScriptSpec == ScriptInit /\ [][ScriptNext]_vars

(***************************************************************************)
(* Vocabulary of the properties.                                           *)
(***************************************************************************)
\* The partition of the current upload.
Target == esp_partition_find_first(label)

UploadReturned == pc = "returned" /\ op = "upload"
UploadSucceeded == UploadReturned /\ result = "ESP_OK"

\* The end of the last page a payload of n bytes reaches.
PageCeil(n) == ((n + (PAGE - 1)) \div PAGE) * PAGE

\* ceil(a / b)
CeilDiv(a, b) == (a + (b - 1)) \div b

\* The calls of one kind in flash_log, as indices.
Calls(kind) == {i \in DOMAIN flash_log : flash_log[i].op = kind}

\* Call i touches a byte of the page at offset po / covers the whole page.
Touches(i, po) ==
    /\ flash_log[i].off < po + PAGE
    /\ po < flash_log[i].off + flash_log[i].len
Covers(i, po) ==
    /\ flash_log[i].off <= po
    /\ po + PAGE <= flash_log[i].off + flash_log[i].len

\* The page offset of the k-th compared page.
PageOff(k) == (k - 1) * PAGE

\* No storage call, no allocation, no pull, no change of the flash.
NoSideEffect ==
    /\ flash_log = << >>
    /\ bufs = NoBufs
    /\ pulls = 0
    /\ flash = base

(***************************************************************************)
(* C1.  A successful upload of L bytes, L within the partition, leaves     *)
(* bytes [0, L) of the partition equal to the payload, the bytes up to the *)
(* next page boundary equal to 0xFF, and every later byte as it was.       *)
(***************************************************************************)
C1_WrittenContent ==
    (UploadSucceeded /\ total_len <= Target.size) =>
        /\ Len(payload) = total_len
        /\ \A i \in 1 .. Target.size :
              Content(flash, Target)[i] =
                 IF i <= total_len THEN payload[i]
                 ELSE IF i <= PageCeil(total_len) THEN FILLER
                 ELSE Content(base, Target)[i]

\* A short upload that changed its pages, padded the last one, and left a
\* programmed byte behind the last page.
C1_Witness ==
    /\ UploadSucceeded
    /\ label = "ota_0"
    /\ total_len = PAGE + 1
    /\ payload[1] = 0
    /\ Content(base, Target)[1] = FILLER
    /\ Content(base, Target)[PAGE + 2] = 0
    /\ Content(flash, Target)[PAGE + 2] = FILLER
    /\ Content(flash, Target)[(2 * PAGE) + 1] = 0

\* The current upload repeats the successful upload before it.
IsRepeat ==
    /\ replay.on
    /\ op = "upload"
    /\ label = replay.label
    /\ total_len = Len(replay.payload)
    /\ payload = SubSeq(replay.payload, 1, Len(payload))

\* Every page compared clean, none was written, nothing erased or programmed.
AllClean ==
    /\ \A k \in DOMAIN page_dirty : ~page_dirty[k]
    /\ pages_written = 0
    /\ Calls("erase") = {}
    /\ Calls("write") = {}

(***************************************************************************)
(* C2.  As claimed: after a successful upload of X, the same upload sent   *)
(* again finds every page clean, writes no page and issues no erase and no *)
(* program call.                                                           *)
(***************************************************************************)
C2_IdempotentAsClaimed == IsRepeat => AllClean

(***************************************************************************)
(* C2, amended.  The repeated upload finds every page clean and issues no  *)
(* erase and no program call provided every read of the stored page in the *)
(* repeated call succeeds (a page whose read fails is treated as dirty).   *)
(***************************************************************************)
C2_Idempotent ==
    (IsRepeat /\ \A i \in Calls("read") : flash_log[i].ok) => AllClean

C2_Witness ==
    /\ IsRepeat
    /\ UploadSucceeded
    /\ label = "ota_0"
    /\ total_len = (2 * PAGE) + 1
    /\ payload[1] = 0
    /\ pages_compared = 3
    /\ AllClean

(***************************************************************************)
(* C3.  In a successful upload every page that compared dirty is covered   *)
(* by exactly one erase call and, after it, exactly one program call, and  *)
(* no clean page is touched by an erase or a program call; with exactly    *)
(* one dirty page there is one erase and one program of one page at that   *)
(* page's offset.                                                          *)
(***************************************************************************)
C3_DirtyPagesFlushedOnce ==
    UploadSucceeded =>
        /\ \A k \in DOMAIN page_dirty :
              LET E == {i \in Calls("erase") : Touches(i, PageOff(k))}
                  W == {i \in Calls("write") : Touches(i, PageOff(k))}
              IN  IF page_dirty[k]
                  THEN /\ Cardinality(E) = 1
                       /\ Cardinality(W) = 1
                       /\ \A e \in E, w \in W :
                             /\ Covers(e, PageOff(k))
                             /\ Covers(w, PageOff(k))
                             /\ e < w
                  ELSE E = {} /\ W = {}
        /\ \A k \in DOMAIN page_dirty :
              (\A j \in DOMAIN page_dirty : page_dirty[j] <=> (j = k)) =>
                  /\ Cardinality(Calls("erase")) = 1
                  /\ Cardinality(Calls("write")) = 1
                  /\ \A i \in Calls("erase") \union Calls("write") :
                        /\ flash_log[i].off = PageOff(k)
                        /\ flash_log[i].len = PAGE

\* The payload differs from the stored content in its last page only.
C3_Witness ==
    /\ UploadSucceeded
    /\ label = "ota_0"
    /\ total_len = Ota0Pages * PAGE
    /\ page_dirty = [k \in 1 .. Ota0Pages |-> k = Ota0Pages]
    /\ \A i \in Calls("read") : flash_log[i].ok
    /\ pages_written = 1

(***************************************************************************)
(* C4.  No erase call and no program call of an upload spans more than     *)
(* WRITE_BUF_SIZE bytes, and no page is copied into the accumulation       *)
(* buffer at or beyond its end.                                            *)
(***************************************************************************)
C4_FlushWithinBuffer ==
    (op = "upload") =>
        /\ \A i \in Calls("erase") \union Calls("write") :
              flash_log[i].len <= WRITE_BUF_SIZE
        /\ \A o \in memcpy_log : o >= 0 /\ o + PAGE <= WRITE_BUF_SIZE

\* A run filled the buffer, was flushed, and a further page was copied.
C4_Witness ==
    /\ op = "upload"
    /\ \E i \in Calls("write") :
          /\ flash_log[i].len = WRITE_BUF_SIZE
          /\ flash_log[i].ok
          /\ \E j \in Calls("write") : j > i
    /\ (WRITE_BUF_SIZE - PAGE) \in memcpy_log

(***************************************************************************)
(* C5.  A successful upload of L bytes in which every page compared dirty  *)
(* performs exactly ceil(L / WRITE_BUF_SIZE) flushes (erase and program).  *)
(***************************************************************************)
C5_FlushCount ==
    (UploadSucceeded /\ \A k \in DOMAIN page_dirty : page_dirty[k]) =>
        /\ Cardinality(Calls("erase")) = CeilDiv(total_len, WRITE_BUF_SIZE)
        /\ Cardinality(Calls("write")) = CeilDiv(total_len, WRITE_BUF_SIZE)

C5_Witness ==
    /\ UploadSucceeded
    /\ total_len > WRITE_BUF_SIZE
    /\ Len(page_dirty) = CeilDiv(total_len, PAGE)
    /\ \A k \in DOMAIN page_dirty : page_dirty[k]
    /\ Cardinality(Calls("erase")) = 2

(***************************************************************************)
(* C6.  Every erase call, of an upload's flush or of clear, starts at a    *)
(* partition offset that is a multiple of the page size and covers a       *)
(* length that is a multiple of the page size.                             *)
(***************************************************************************)
C6_EraseAligned ==
    \A i \in Calls("erase") :
        /\ flash_log[i].off % PAGE = 0
        /\ flash_log[i].len % PAGE = 0

\* A flush whose run starts inside the partition and has two pages.
C6_Witness ==
    /\ op = "upload"
    /\ \E i \in Calls("erase") :
          /\ flash_log[i].off = PAGE
          /\ flash_log[i].len = 2 * PAGE
          /\ flash_log[i].ok

\* clear erased a whole partition.
C6_ClearWitness ==
    /\ op = "clear"
    /\ \E i \in Calls("erase") :
          /\ flash_log[i].off = 0
          /\ flash_log[i].len = Ota0Pages * PAGE
          /\ flash_log[i].ok

C8_RegionTooSmallRejected ==
    (UploadReturned /\ Target # NoPartition
        /\ total_len <= MAX_OTA_DATA_SIZE /\ ~fault) =>
        /\ (total_len > Target.size) =>
              /\ result = "ESP_FAIL"
              /\ flash_log = << >>
              /\ flash = base
        /\ (total_len = Target.size) => result = "ESP_OK"

\* What the handler does instead: pages of the partition are rewritten
\* before the page behind its end fails the upload.
C8_RewrittenBeforeFailure ==
    /\ UploadReturned
    /\ label = "ota_0"
    /\ total_len = Target.size + 1
    /\ ~fault
    /\ result = "ESP_FAIL"
    /\ response = "500 Failed to erase partition"
    /\ Content(flash, Target) # Content(base, Target)

LastPage == CeilDiv(total_len, PAGE)
LastBytes == total_len - PageOff(LastPage)

\* The final page as it has to be compared: payload, then 0xFF.
PaddedLast ==
    [i \in 1 .. PAGE |->
        IF i <= LastBytes THEN payload[PageOff(LastPage) + i] ELSE FILLER]

StoredLast == ReadBytes(base, Target, PageOff(LastPage), PAGE)

LastReadOk ==
    \E i \in Calls("read") :
        flash_log[i].off = PageOff(LastPage) /\ flash_log[i].ok

(***************************************************************************)
(* C10.  An upload whose length is not a multiple of the page size         *)
(* succeeds (when nothing fails); its final page is compared after being   *)
(* padded with 0xFF, so it is dirty exactly when the padded page differs   *)
(* from the stored page (or the read failed), and a dirty final page is    *)
(* erased and programmed with the padded page.                             *)
(***************************************************************************)
C10_PartialFinalPage ==
    (op = "upload" /\ Target # NoPartition /\ total_len % PAGE # 0
        /\ total_len <= Target.size /\ total_len <= MAX_OTA_DATA_SIZE) =>
        /\ (pc = "returned" /\ ~fault) => result = "ESP_OK"
        /\ (Len(page_dirty) = LastPage) =>
              /\ page_dirty[LastPage] =
                    ((~LastReadOk) \/ (PaddedLast # StoredLast))
              /\ (UploadSucceeded /\ page_dirty[LastPage]) =>
                    /\ ReadBytes(flash, Target, PageOff(LastPage), PAGE)
                          = PaddedLast
                    /\ \E e \in Calls("erase"), w \in Calls("write") :
                          /\ Covers(e, PageOff(LastPage))
                          /\ Covers(w, PageOff(LastPage))
                          /\ e < w

\* The payload bytes of the final page equal the stored bytes, the stored
\* bytes behind them are not 0xFF: the page is dirty and rewritten.
C10_Witness ==
    /\ UploadSucceeded
    /\ label = "ota_0"
    /\ total_len = PAGE + 1
    /\ LastReadOk
    /\ \A i \in 1 .. LastBytes : StoredLast[i] = PaddedLast[i]
    /\ \E i \in (LastBytes + 1) .. PAGE : StoredLast[i] # FILLER
    /\ page_dirty = << FALSE, TRUE >>
    /\ pages_written = 1

\* The erase and program calls that failed.
FailedCalls ==
    {i \in Calls("erase") \union Calls("write") : ~flash_log[i].ok}

\* Byte k of the payload as it is programmed: the payload, then 0xFF.
PaddedPayload(k) == IF k <= Len(payload) THEN payload[k] ELSE FILLER

\* The bytes of program call w hold the payload.
Programmed(w) ==
    \A k \in 1 .. flash_log[w].len :
        Content(flash, Target)[flash_log[w].off + k] =
            PaddedPayload(flash_log[w].off + k)

(***************************************************************************)
(* C11.  Once an erase or a program call of an upload failed, the upload   *)
(* has returned ESP_FAIL and the failed call is the last storage call (no  *)
(* program follows a failed erase), no pull follows it, and every run that *)
(* was programmed before still holds the payload.                          *)
(***************************************************************************)
C11_AbortOnFlushFailure ==
    (op = "upload" /\ FailedCalls # {}) =>
        /\ pc = "returned"
        /\ result = "ESP_FAIL"
        /\ \A i \in FailedCalls : i = Len(flash_log)
        /\ pulls = Len(page_dirty)
        /\ \A w \in Calls("write") : flash_log[w].ok => Programmed(w)

\* A run was programmed, then the program call of a later run failed on the
\* device.
C11_Witness ==
    /\ UploadReturned
    /\ label = "ota_0"
    /\ result = "ESP_FAIL"
    /\ response = "500 Write failed"
    /\ flash_log[Len(flash_log)].op = "write"
    /\ flash_log[Len(flash_log)].dev
    /\ \E w \in Calls("write") :
          /\ flash_log[w].ok
          /\ Programmed(w)
          /\ Content(flash, Target) # Content(base, Target)

\* The read calls that failed.
FailedReads == {i \in Calls("read") : ~flash_log[i].ok}

\* The number of the page read call i compared.
PageOfRead(i) == (flash_log[i].off \div PAGE) + 1

(***************************************************************************)
(* C12.  As claimed: an upload in which a read of the stored page failed   *)
(* returns ESP_FAIL, and no storage call follows the failed read.          *)
(***************************************************************************)
C12_ReadFailureTerminal ==
    (UploadReturned /\ FailedReads # {}) =>
        /\ result = "ESP_FAIL"
        /\ \A i \in FailedReads : i = Len(flash_log)

(***************************************************************************)
(* C12, amended.  A failed read of the stored page does not end the        *)
(* upload: the page counts as dirty and is copied into the accumulation    *)
(* buffer; the upload fails only when a pull, an erase or a program call   *)
(* fails, and when it succeeds the page holds the payload.                 *)
(***************************************************************************)
C12_ReadFailureIsDirty ==
    (op = "upload" /\ FailedReads # {}) =>
        /\ \A i \in FailedReads :
              /\ PageOfRead(i) \in DOMAIN page_dirty
              /\ page_dirty[PageOfRead(i)]
              /\ UploadSucceeded =>
                    \A k \in 1 .. PAGE :
                        Content(flash, Target)[flash_log[i].off + k] =
                            PaddedPayload(flash_log[i].off + k)
        /\ (UploadReturned /\ result = "ESP_FAIL") =>
              (FailedCalls # {} \/ pulls > Len(page_dirty))

\* The read of the first page failed, the stored page equals the payload,
\* and the upload went on to a second page and succeeded.
C12_Witness ==
    /\ UploadSucceeded
    /\ label = "ota_0"
    /\ total_len = 2 * PAGE
    /\ ~flash_log[1].ok
    /\ flash_log[1].op = "read"
    /\ ReadBytes(base, Target, 0, PAGE) = SubSeq(payload, 1, PAGE)
    /\ page_dirty[1]
    /\ pages_written >= 1

\* A pull of the upload failed: it was counted, and delivered no page.
PullFailed == op = "upload" /\ pulls > Len(page_dirty)

Allocated ==
    /\ op = "upload"
    /\ label # ""
    /\ total_len <= MAX_OTA_DATA_SIZE
    /\ Target # NoPartition

(***************************************************************************)
(* C14.  The three buffers of an upload are live while the page loop runs; *)
(* when the upload has returned, each buffer that was allocated is freed   *)
(* exactly once (a buffer whose malloc failed is NULL, and only on the     *)
(* allocation-failure exit); an upload rejected before the allocation has  *)
(* no buffer.                                                              *)
(***************************************************************************)
C14_BuffersFreedOnce ==
    /\ (pc = "upload_loop") => \A b \in BufNames : bufs[b] = "live"
    /\ (UploadReturned /\ Allocated) =>
          /\ \A b \in BufNames : bufs[b] \in {"freed", "null"}
          /\ (\E b \in BufNames : bufs[b] = "null") <=>
                (response = "500 Memory allocation failed")
    /\ (UploadReturned /\ ~Allocated) => bufs = NoBufs

\* The exit after a failed erase, on the second flush.
C14_Witness ==
    /\ UploadReturned
    /\ response = "500 Failed to erase partition"
    /\ Cardinality(Calls("erase")) = 2
    /\ \A b \in BufNames : bufs[b] = "freed"

\* The labels of the application partitions.
AppLabels ==
    {PartitionTable[i].label :
        i \in {j \in DOMAIN PartitionTable : PartitionTable[j].type = "app"}}

\* The partition the device starts after the next reset, as
\* esp_ota_get_boot_partition reports it.
BootTarget == esp_ota_get_boot_partition(otadata)

C16_NonAppTargetRejected ==
    [][(op' = "set_boot" /\ pc = "idle" /\ label' # ""
            /\ label' \notin AppLabels) =>
          /\ result' = "ESP_FAIL"
          /\ response' \in {"404 Partition not found"}
          /\ otadata' = otadata
          /\ ota_calls' = 0]_vars

\* "ota_0" is the boot partition and a set_boot for "nvs" was rejected.
C16_Witness ==
    /\ pc = "returned"
    /\ op = "set_boot"
    /\ label = "nvs"
    /\ response = "404 Partition not found"
    /\ otadata = "ota_0"
    /\ BootTarget = "ota_0"

SetBootSucceeds == op' = "set_boot" /\ pc = "idle" /\ result' = "ESP_OK"

C18_KeptOverRestart ==
    /\ reset_reason = "CORE_SW"
    /\ otadata = "ota_0"
    /\ running = "ota_0"
    /\ pc = "other_app"


(***************************************************************************)
(* Key-value store: set, get, delete.                                      *)
(***************************************************************************)
\* The value text is valid for the type code: a decimal text in the range
\* of the integer kind, any text for a string.
ValidFor(code, v) ==
    IF code = 0 THEN v.dec /\ v.n \in 0 .. 255
    ELSE IF code = 1 THEN v.dec /\ v.n \in -128 .. 127
    ELSE IF code \in 2 .. 7 THEN v.dec
    ELSE code = 8

\* The last request was a successful set of a valid value.
SetSucceeded ==
    /\ kv_cur.op = "nvs_set"
    /\ kv_cur.res = "ESP_OK"
    /\ kv_cur.commit = "ESP_OK"
    /\ ValidFor(kv_cur.type, kv_cur.value)

\* This step is a request of handler o for the partition and key of the
\* last request.
SameEntry(o) ==
    /\ kv_cur'.op = o
    /\ kv_cur'.part = kv_cur.part
    /\ kv_cur'.key = kv_cur.key

\* C19: a get that follows a successful set of a type code 0 .. 8 and a
\* valid value, for the same partition and key, succeeds and reports the
\* type code and the value text of the set.
C19_SetThenGet ==
    [][(SetSucceeded /\ SameEntry("nvs_get"))
         => /\ kv_cur'.resp = "200 entry"
            /\ kv_cur'.out = [type |-> kv_cur.type, value |-> kv_cur.value]]_vars

\* A get answers "Key not found" right after the set of that key in a named
\* namespace succeeded.
C19_GetMissesEntry ==
    /\ kv_cur.op = "nvs_get"
    /\ kv_cur.resp = "200 Key not found"
    /\ \E n \in Namespaces \ {""} : nvs_entries[<< n, kv_cur.key >>] # NoEntry

\* A get finds the entry and reports another type number than the set's
\* type code, or no value text.
C19_GetReportsOtherEntry ==
    /\ kv_cur.op = "nvs_get"
    /\ kv_cur.resp = "200 entry"
    /\ kv_item.type \in 0 .. 8
    /\ ValidFor(kv_item.type, kv_item.value)
    /\ nvs_entries[<< "", "k" >>] = EntryOf(kv_item.type, kv_item.value)
    /\ kv_cur.out # [type |-> kv_item.type, value |-> kv_item.value]

\* C20: a delete that follows a successful set, for the same partition and
\* key, succeeds and removes the entry; a get that follows a successful
\* delete answers that the key is not found; a delete of a key that no
\* namespace holds fails and leaves the entries as they are.
C20_SetThenDelete ==
    [][/\ (SetSucceeded /\ SameEntry("nvs_delete"))
            => /\ kv_cur'.res = "ESP_OK"
               /\ nvs_entries'[<< kv_cur.ns, kv_cur.key >>] = NoEntry
       /\ (kv_cur.op = "nvs_delete" /\ kv_cur.res = "ESP_OK"
             /\ kv_cur.commit = "ESP_OK" /\ SameEntry("nvs_get"))
            => kv_cur'.resp = "200 Key not found"
       /\ (kv_cur'.op = "nvs_delete" /\ kv_cur'.part = "nvs"
             /\ kv_cur'.key \in StoreKeys
             /\ \A n \in Namespaces : nvs_entries[<< n, kv_cur'.key >>] = NoEntry
             /\ pc = "idle")
            => /\ kv_cur'.res # "ESP_OK"
               /\ nvs_entries' = nvs_entries]_vars

\* A delete failed and the entry set by the request before it is still
\* stored.
C20_EntrySurvivesDelete ==
    /\ kv_cur.op = "nvs_delete"
    /\ kv_cur.res # "ESP_OK"
    /\ kv_cur.part = "nvs"
    /\ kv_cur.key = "k"
    /\ \E n \in Namespaces \ {""} : nvs_entries[<< n, "k" >>] # NoEntry


(***************************************************************************)
(* Key-value store: namespaces, type codes, rejected and committed sets.   *)
(***************************************************************************)
\* Two namespaces or more hold an entry of the key.
HeldTwice(key) ==
    \E n1, n2 \in Namespaces :
        /\ n1 # n2
        /\ nvs_entries[<< n1, key >>] # NoEntry
        /\ nvs_entries[<< n2, key >>] # NoEntry

\* What nvs_get_handler prints for the entry e.
Reported(e) == [type |-> e.type, value |-> GetValueText(e)]

\* C21: when two namespaces hold the key, a get that follows a successful
\* set in one of them reports that namespace's entry, and a delete that
\* follows it removes that namespace's entry and no other.
C21_KeyedByNamespace ==
    [][/\ (SetSucceeded /\ HeldTwice(kv_cur.key) /\ SameEntry("nvs_get"))
            => /\ kv_cur'.resp = "200 entry"
               /\ kv_cur'.out =
                      Reported(nvs_entries[<< kv_cur.ns, kv_cur.key >>])
       /\ (SetSucceeded /\ HeldTwice(kv_cur.key) /\ SameEntry("nvs_delete")
             /\ kv_cur'.commit # "ESP_FAIL")
            => nvs_entries' =
                   [nvs_entries EXCEPT ![<< kv_cur.ns, kv_cur.key >>] =
                       NoEntry]]_vars

\* A get reports the entry of the namespace "" while the namespace "app"
\* holds another entry of the same key.
C21_GetReportsUnnamedNamespace ==
    /\ kv_cur.op = "nvs_get"
    /\ kv_cur.resp = "200 entry"
    /\ nvs_entries[<< "app", kv_cur.key >>] # NoEntry
    /\ kv_cur.out # Reported(nvs_entries[<< "app", kv_cur.key >>])

C23_BadTypeNoMutation ==
    [][(pc = "idle" /\ kv_cur'.op = "nvs_set" /\ kv_cur'.part # ""
          /\ kv_cur'.type \notin 0 .. 9)
         => /\ kv_cur'.res = "ESP_FAIL"
            /\ nvs_entries' = nvs_entries
            /\ nvs_namespaces' = nvs_namespaces]_vars

\* A set of type code 10 was refused and its namespace, which holds no
\* entry, exists.
C23_NamespaceLeftBehind ==
    /\ kv_cur.op = "nvs_set"
    /\ kv_cur.type = 10
    /\ kv_cur.resp = "500 Failed to write key"
    /\ kv_cur.ns \in nvs_namespaces
    /\ \A k \in StoreKeys : nvs_entries[<< kv_cur.ns, k >>] = NoEntry

\* C24: a set or delete request that reports success has had its change
\* committed.
C24_SuccessMeansCommitted ==
    (kv_cur.op \in {"nvs_set", "nvs_delete"} /\ kv_cur.res = "ESP_OK")
        => kv_cur.commit = "ESP_OK"

\* A set answered "Key updated" although nvs_commit failed and the entry is
\* not in the store.
C24_SuccessWithoutEntry ==
    /\ kv_cur.op = "nvs_set"
    /\ kv_cur.resp = "200 Key updated"
    /\ kv_cur.commit = "ESP_FAIL"
    /\ nvs_entries[<< kv_cur.ns, kv_cur.key >>] = NoEntry

\* C25: the type a get or a list reports for an entry is a code of 0 .. 9,
\* and a set request of that code writes an entry of the reported entry's
\* kind.
C25_ReportedTypeCodes ==
    /\ (kv_cur.op = "nvs_get" /\ kv_cur.resp = "200 entry")
         => /\ kv_cur.out.type \in 0 .. 9
            /\ NvsTypeOf(kv_cur.out.type) =
                   nvs_entries[<< "", kv_cur.key >>].type
    /\ (kv_cur.op = "nvs_list")
         => \A e \in kv_cur.listed :
                /\ e.type \in 0 .. 9
                /\ NvsTypeOf(e.type) = nvs_entries[<< e.ns, e.key >>].type

\* A list reports the string entry of namespace "app" with the type 33.
C25_ListReportsNvsType ==
    /\ kv_cur.op = "nvs_list"
    /\ [ns |-> "app", key |-> "k", type |-> 33, value |-> Str("abc")]
           \in kv_cur.listed


(***************************************************************************)
(* File store.                                                             *)
(***************************************************************************)
\* C26: while no file-store handler runs, no partition is registered with
\* the VFS.
C26_UnmountedBetweenCalls ==
    (pc \in {"idle", "returned"}) => fs_mounted = {}

\* An upload that had mounted the partition and written to the file
\* returned on its write-failure path, with the partition unmounted.
C26_Witness ==
    /\ pc = "returned"
    /\ fs_cur.op = "fs_upload"
    /\ fs_cur.resp = "500 Write failed"
    /\ fs_cur.received > 0
    /\ fs_mounted = {}

\* A handler is in its loop with the partition mounted.
C26_MountedDuringCall ==
    /\ pc \in {"fs_upload_loop", "fs_download_loop"}
    /\ fs_mounted = {"spiffs"}

C28_DownloadExact ==
    (pc = "returned" /\ fs_cur.op = "fs_download")
        => /\ (fs_cur.res = "ESP_OK")
                => fs_cur.sent = fs_files[fs_cur.name]
           /\ (fs_cur.part \in SpiffsLabels /\ fs_cur.name \in FileNames
                 /\ fs_files[fs_cur.name] = NoFile
                 /\ fs_cur.resp # "500 Failed to mount partition")
                => /\ fs_cur.resp = "404 File not found"
                   /\ fs_cur.sent = << >>

\* A download returned ESP_OK after it had streamed a part of the file.
C28_TruncatedReportedComplete ==
    /\ pc = "returned"
    /\ fs_cur.op = "fs_download"
    /\ fs_cur.res = "ESP_OK"
    /\ Len(fs_cur.sent) > 0
    /\ Len(fs_cur.sent) < Len(fs_files[fs_cur.name])


(***************************************************************************)
(* Operations on different regions.                                        *)
(***************************************************************************)
\* The addresses of the partition the request names.
RegionOf(l) ==
    {a \in Addr :
        /\ a >= esp_partition_find_first(l).address
        /\ a < esp_partition_find_first(l).address
                 + esp_partition_find_first(l).size}

\* All flash calls of one request name one partition, and every step of a
\* handler changes flash bytes of that partition and no others; the handlers
\* run one at a time on the server task, so an operation on one region finds
\* the other regions as the operation before it left them.
OtherRegionsUntouched ==
    /\ [](\A i, j \in DOMAIN flash_log : flash_log[i].part = flash_log[j].part)
    /\ [][\A a \in Addr :
            (flash'[a] # flash[a])
                => /\ flash_log' # << >>
                   /\ a \in RegionOf(flash_log'[Len(flash_log')].part)]_vars

\* An upload to "ota_0" has programmed bytes after a clear of "nvs" erased
\* that partition.
OtherRegionsWitness ==
    /\ op = "upload"
    /\ pc = "returned"
    /\ result = "ESP_OK"
    /\ \E i \in DOMAIN flash_log : flash_log[i].op = "write"
    /\ Content(flash, esp_partition_find_first("nvs")) =
           [i \in 1 .. PAGE |-> FILLER]


(***************************************************************************)
(* Error results.                                                          *)
(***************************************************************************)
\* C30: a call that did not succeed returned an error result and sent an
\* error response that names the failure, and a file download that stopped
\* before the end of the file did not return success.
C30_FailuresReported ==
    /\ (pc = "returned" /\ result # "ESP_OK")
         => (result = "ESP_FAIL" /\ response # "none")
    /\ (pc = "returned" /\ op = "fs_download" /\ fs_cur.part \in SpiffsLabels
          /\ fs_cur.name \in FileNames
          /\ fs_cur.sent # fs_files[fs_cur.name])
         => result = "ESP_FAIL"

\* An upload returned ESP_FAIL after its source failed, and no response was
\* sent.
C30_FailureWithoutResponse ==
    /\ pc = "returned"
    /\ op = "upload"
    /\ result = "ESP_FAIL"
    /\ response = "none"
    /\ pulls > Len(page_dirty)

(***************************************************************************)
(* Clearing a partition.                                                   *)
(***************************************************************************)
\* C31: after a clear that returned success, every byte of the partition its
\* label names is erased (FILLER) and every byte outside that partition is as
\* it was when the request arrived; a clear whose label names no partition
\* fails, has issued no erase and has changed no byte.
C31_ClearErasesRegion ==
    (pc = "returned" /\ op = "clear") =>
        /\ (result = "ESP_OK") =>
              /\ esp_partition_find_first(label) # NoPartition
              /\ \A a \in Addr :
                    flash[a] = IF a \in RegionOf(label) THEN FILLER
                               ELSE base[a]
        /\ (esp_partition_find_first(label) = NoPartition) =>
              /\ result = "ESP_FAIL"
              /\ Calls("erase") = {}
              /\ flash = base

\* A clear of "ota_0" succeeded on a partition that held programmed bytes.
C31_Witness ==
    /\ pc = "returned"
    /\ op = "clear"
    /\ result = "ESP_OK"
    /\ label = "ota_0"
    /\ \E a \in RegionOf("ota_0") : base[a] # FILLER /\ flash[a] = FILLER

(***************************************************************************)
(* The counters of an upload.                                              *)
(***************************************************************************)
\* The pages of the upload that compared dirty.
DirtyPages == {i \in DOMAIN page_dirty : page_dirty[i]}

\* The bytes the program calls 1 .. n of flash_log wrote.
RECURSIVE BytesProgrammed(_)
BytesProgrammed(n) ==
    IF n = 0 THEN 0
    ELSE BytesProgrammed(n - 1)
           + (IF flash_log[n].op = "write" /\ flash_log[n].ok
              THEN flash_log[n].len ELSE 0)

\* C32: when an upload has returned success, received equals total_len,
\* pages_compared equals ceil(total_len / PAGE), and pages_written equals
\* the number of pages that compared dirty and the number of bytes
\* programmed divided by PAGE; in every state of an upload pages_written is
\* at most pages_compared.
C32_Counters ==
    /\ UploadSucceeded =>
          /\ received = total_len
          /\ pages_compared = CeilDiv(total_len, PAGE)
          /\ pages_written = Cardinality(DirtyPages)
          /\ pages_written * PAGE = BytesProgrammed(Len(flash_log))
    /\ (op = "upload") => pages_written <= pages_compared

\* A successful upload ending in a partial page, with a clean page between
\* two dirty ones.
C32_Witness ==
    /\ UploadSucceeded
    /\ total_len % PAGE # 0
    /\ pages_compared = 3
    /\ pages_written = 2
    /\ page_dirty = << TRUE, FALSE, TRUE >>

(***************************************************************************)
(* The run of dirty pages held in write_buf.                               *)
(***************************************************************************)
\* C38: at the start of every iteration of the page loop the run is open
\* (write_buf_active) exactly when write_buf_offset is not zero; an open run
\* holds a whole number of pages, more than none and less than
\* WRITE_BUF_SIZE, and ends where the current page starts
\* (write_buf_start_addr + write_buf_offset = write_offset); when the loop
\* has ended normally no run is open.
C38_RunAccumulation ==
    /\ (pc = "upload_loop") =>
          /\ write_buf_active <=> (write_buf_offset # 0)
          /\ write_buf_active =>
                /\ write_buf_offset % PAGE = 0
                /\ 0 < write_buf_offset
                /\ write_buf_offset < WRITE_BUF_SIZE
                /\ write_buf_start_addr + write_buf_offset = write_offset
    /\ ((pc = "upload_loop" /\ ~(received < total_len)) \/ UploadSucceeded)
          => ~write_buf_active

\* An iteration starts with a run of one page open that began after a clean
\* page.
C38_Witness ==
    /\ pc = "upload_loop"
    /\ received < total_len
    /\ write_buf_active
    /\ write_buf_start_addr = PAGE
    /\ write_buf_offset = PAGE
    /\ write_offset = 2 * PAGE

BootStep ==
    /\ op' = "none"
    /\ pc' \in {"idle", "other_app"}
    /\ (pc # "returned" \/ reset_reason' # reset_reason
           \/ running' # running)

\* C34: a start of the bootloader after one of the eight watchdog reset
\* reasons erases the OTA data and starts the factory application, whatever
\* the boot partition was; a start after any other reset reason leaves the
\* OTA data, the boot partition and the flash as they were.
C34_WatchdogFallsBack ==
    /\ [](reset_reason \in WatchdogResets => running = "factory")
    /\ [][(BootStep /\ reset_reason' \in WatchdogResets)
            => (otadata' = "" /\ running' = "factory" /\ flash' = flash)]_vars
    /\ [][(BootStep /\ reset_reason' \notin WatchdogResets)
            => /\ otadata' = otadata
               /\ esp_ota_get_boot_partition(otadata') =
                      esp_ota_get_boot_partition(otadata)
               /\ flash' = flash]_vars

\* The factory application runs after a reset by the RTC watchdog, the OTA
\* data erased, while "ota_0" holds a valid image.
C34_Witness ==
    /\ reset_reason = "CORE_RTC_WDT"
    /\ running = "factory"
    /\ otadata = ""
    /\ op = "none"
    /\ pc = "idle"
    /\ Content(flash, esp_partition_find_first("ota_0"))[1] = 0

Requests(uri) == {i \in DOMAIN script.sent : script.sent[i].uri = uri}

\* Request i was answered with status 200 and a success body.
AnsweredSuccess(i) ==
    script.sent[i].code = "200" /\ script.sent[i].success

\* C35: the script sends the set_boot request only after an upload request
\* that was answered with 200 and a success body, and the restart request
\* only after a set_boot request answered so; an upload or set_boot request
\* answered otherwise is the last request the script sends, and the script
\* has exited with a non-zero code.
C35_RequestOrder ==
    /\ \A i \in Requests(SET_BOOT_URL) :
          \E j \in Requests(UPLOAD_URL) : j < i /\ AnsweredSuccess(j)
    /\ \A i \in Requests(RESTART_URL) :
          \E j \in Requests(SET_BOOT_URL) : j < i /\ AnsweredSuccess(j)
    /\ \A i \in Requests(UPLOAD_URL) \union Requests(SET_BOOT_URL) :
          ~AnsweredSuccess(i)
              => /\ i = Len(script.sent)
                 /\ script.pc = "exited"
                 /\ script.exit > 0

\* The script sent upload, set_boot and restart, each after the success of
\* the one before, and exited with 0.
C35_Witness ==
    /\ script.pc = "exited"
    /\ script.exit = 0
    /\ \E i \in Requests(UPLOAD_URL), j \in Requests(SET_BOOT_URL),
          k \in Requests(RESTART_URL) :
          i < j /\ j < k /\ AnsweredSuccess(i) /\ AnsweredSuccess(j)

\* C36: a reset command that this application answers is answered with
\* status 404, and the script that sent it does not exit before it has
\* sent the upload request.
C36_RecoveryProbeAnswered404 ==
    \A i \in Requests(RESET_URL) :
        (script.sent[i].by = "factory" /\ script.sent[i].code # "000")
            => /\ script.sent[i].code = "404"
               /\ (script.pc = "exited") => Requests(UPLOAD_URL) # {}

\* This application answered both reset commands with 303 and the script
\* exited with 1 before the upload.
C36_ExitBeforeUpload ==
    /\ script.pc = "exited"
    /\ script.exit = 1
    /\ Len(script.sent) = 2
    /\ \A i \in DOMAIN script.sent :
          /\ script.sent[i].uri = RESET_URL
          /\ script.sent[i].by = "factory"
          /\ script.sent[i].code = "303"

\* C37: when the script has exited with an error after it had connected to
\* the network of the device, with an original network saved and WiFi not
\* skipped, it has tried to rejoin the original network.
C37_ErrorExitsReconnect ==
    (/\ script.pc = "exited"
     /\ script.exit > 0
     /\ script.CONNECTED_TO_ESP
     /\ script.ORIGINAL_SSID # ""
     /\ ~script.SKIP_WIFI)
        => script.reconnects > 0

\* The script exited with 1 after the second reset command, joined to the
\* network of the device, with no attempt to rejoin the saved network.
C37_ExitWithoutReconnect ==
    /\ script.pc = "exited"
    /\ script.exit = 1
    /\ script.CONNECTED_TO_ESP
    /\ script.ORIGINAL_SSID = "home"
    /\ ~script.SKIP_WIFI
    /\ script.net = WIFI_SSID
    /\ script.reconnects = 0

====
